---- MODULE Spec2Model ----
(***************************************************************************)
(* Verification model of the geulpi-calendar-ai ML server control plane.   *)
(*                                                                         *)
(* Part 1: RetrainingPipeline (ml-server/pipelines/retraining_pipeline.py) *)
(*         specifications Spec and BarrierSpec.                            *)
(* Part 2: ModelRegistry stage promotion as driven by main.promote_model   *)
(*         and EnhancedWorkflow.train_and_register_model,                  *)
(*         specification RegistrySpec.                                     *)
(* Part 3: the monitor loops of the pipeline, specification LoopSpec.      *)
(* Part 4: the A/B testing framework, specifications ABSpec and            *)
(*         ABServingSpec.                                                  *)
(* Part 5: the model monitor, specification MonitorSpec.                   *)
(* Part 6: MetricsCollector (config/monitoring.py), specification          *)
(*         MetricsSpec.                                                    *)
(* Part 7: the pipeline of create_standard_retraining_pipeline,            *)
(*         specification CanonicalSpec.                                    *)
(* Part 8: the scheduled trigger, specification TriggerSpec.               *)
(* Part 9: the task functions of one batch, specification ExecSpec.        *)
(* Part 10: EnhancedWorkflow.process, specification WorkflowSpec.          *)
(* Part 11: the classifier swap of predict, specification SwapSpec.        *)
(* Part 12: KafkaHandler, specification KafkaSpec.                         *)
(* Part 13: HealthChecker, specification HealthSpec.                       *)
(* Part 14: ModelCache, specification CacheSpec.                           *)
(***************************************************************************)
EXTENDS Integers, Sequences, FiniteSets, TLC

(***************************************************************************)
(* Bounds of the model                                                     *)
(***************************************************************************)
\* largest retry_count a registered TaskConfig carries
MaxRetry == 2
\* largest number of declared dependencies of one TaskConfig
MaxDeps == 1
\* number of triggers that are accepted (runs that are started)
MaxRuns == 2

(***************************************************************************)
(* Part 1: RetrainingPipeline                                              *)
(***************************************************************************)
VARIABLES
    tasks,          \* self.tasks: task_id -> TaskConfig
    notifications,  \* truth value of self.config.notifications
    is_running,     \* self.is_running
    task_results,   \* self.task_results: task_id -> TaskResult
    pipeline_state, \* self.pipeline_state
    pc,             \* position of each caller of _trigger_pipeline
    execution_plan, \* local of _execute_pipeline: list of batches
    batch,          \* index of the batch being executed (1-based)
    pipeline_success, \* local of _execute_pipeline
    tpc,            \* position of each _execute_task coroutine of the batch
    attempt,        \* loop variable of _execute_task
    \* history variables (observations of the run, not program state)
    execs,          \* times the task function was called in this run
    delays,         \* backoff sleeps of the task in this run, in order
    settled,        \* tasks for which this run stored a terminal TaskResult
    seen,           \* what the task function found in the state it was given
    lastOutcome,    \* how the task's coroutine ended in this run (its last call)
    runs,           \* number of _execute_pipeline executions started
    accepted,       \* number of triggers that passed the is_running guard
    dropped,        \* a trigger returned at the guard since the last run began
    notified        \* notification messages emitted by the run, in order

pipeVars == <<tasks, notifications, is_running, task_results, pipeline_state, pc,
              execution_plan, batch, pipeline_success, tpc, attempt, execs, delays,
              settled, seen, lastOutcome, runs, accepted, dropped, notified>>

\* the task ids a pipeline holds coroutines for
TaskIds == {"collect_training_data", "validate_data_quality", "train_candidate_model"}

\* the task ids that add_task registers: two ids give a dependency edge, a
\* two-task batch, a two-cycle and a self-cycle; MissingTask is an id that is
\* declared as a dependency and never registered
AddedIds == {"collect_training_data", "validate_data_quality"}
MissingTask == "unregistered_task"

\* TaskConfig.on_failure values ("skip" is a third documented value; no line of
\* the pipeline reads the field, so it behaves as the other two)
OnFailure == {"fail", "continue"}

\* TaskConfig.retry_count is an unchecked int: negative values skip the loop
RetryCounts == (0 - 1)..MaxRetry

DepSets == {d \in SUBSET (AddedIds \cup {MissingTask}) : Cardinality(d) <= MaxDeps}

TaskConfig == [dependencies : DepSets, retry_count : RetryCounts, on_failure : OnFailure]

\* variables of Part 2 (the registry)
VARIABLES
    versions,        \* version ids registered for the model name
    stage,           \* version id -> current stage
    promotion_lock,  \* holder of the per-model_name promotion lock, or "free"
    rpc,             \* position of each client of the registry
    rcall,           \* the promote call a client is in: version and target
    rresult,         \* what the client's last promote call returned
    rsaved,          \* the stages as the call inside the critical section found them
    runchanged       \* history: the client's last promote call found its
                     \* version in Production already

regVars == <<versions, stage, promotion_lock, rpc, rcall, rresult, rsaved, runchanged>>

\* variables of Part 3 (the monitor loops that trigger the pipeline)
VARIABLES
    dashboard,        \* what self.monitor.get_model_dashboard returns now
    mpc,              \* position of each monitor loop
    degradation_runs  \* history: runs _monitor_performance started since the
                      \* success_rate was last seen to change to below 0.90

loopVars == <<dashboard, mpc, degradation_runs>>

\* variables of Part 4 (the A/B testing framework)
VARIABLES
    experiments,   \* experiment_id -> Experiment
    ab_results,    \* experiment_id -> the ExperimentResults recorded, in order
    ab_reply,      \* what the last call to the framework or its callers returned
    allocations,   \* history: experiment_id -> identifier -> the variants
                   \* returned, and whether get_variant was called again
    record_calls   \* history: experiment_id -> number of record_result calls

abVars == <<experiments, ab_results, ab_reply, allocations, record_calls>>

\* variables of Part 5 (the model monitor and the requests it records)
VARIABLES
    samples,        \* the metric samples the monitor holds, oldest first
    active_alerts,  \* what the last check_alerts returned
    prev_alerts,    \* history: what the check_alerts before it returned
    last_op,        \* history: the operation that made the last step
    request         \* history: the last request EnhancedWorkflow.process served

monVars == <<samples, active_alerts, prev_alerts, last_op, request>>

\* variables of Part 6 (the metrics store, config/monitoring.py)
VARIABLES
    counters,   \* self.counters: key -> int
    metrics,    \* self.metrics: key -> the deque stored under the key
    deques,     \* the deque objects created so far, by identity
    writer,     \* position and locals of each thread inside a record_* call
    recorded    \* history: what the record_* calls that returned were given

metVars == <<counters, metrics, deques, writer, recorded>>

\* variable of Part 8 (the scheduler thread of the pipeline)
VARIABLES
    never_awaited   \* coroutine objects the scheduled job made and dropped

schedVars == <<never_awaited>>

\* variable of Part 9 (the task functions of one batch, as _execute_task
\* runs them): a record of
\*   max_concurrent_tasks   PipelineConfig.max_concurrent_tasks
\*   is_coroutine           asyncio.iscoroutinefunction(task_config.function)
\*   retry_count            TaskConfig.retry_count of each task of the batch
\*   epc                    position of each _execute_task coroutine
\*   eattempt               its loop variable `attempt`
\*   executing              the attempts whose function body is still running
VARIABLES batch_run

execVars == <<batch_run>>

max_concurrent_tasks == batch_run.max_concurrent_tasks
is_coroutine == batch_run.is_coroutine
retry_count == batch_run.retry_count
epc == batch_run.epc
eattempt == batch_run.eattempt
executing == batch_run.executing

\* variable of Part 10 (EnhancedWorkflow.process and the experiment it
\* serves): a record of
\*   active_experiment   self.active_experiment
\*   calls               history: the process calls made, in order
\*   exp_results         the ExperimentResults process gave to record_result
\*   reports             the record_prediction calls process made
VARIABLES workflow

wfVars == <<workflow>>

active_experiment == workflow.active_experiment
calls == workflow.calls
exp_results == workflow.exp_results
reports == workflow.reports

\* variable of Part 11 (the classifier swap of
\* EnhancedEventClassificationWorkflow.predict): a record of
\*   event_classifier      self.event_classifier
\*   ppc                   position of the predict call of each request
\*   model                 its local `model`, as process passed it
\*   original_classifier   its local `original_classifier`
\*   classified_by         history: the classifier classify_event_node used
VARIABLES predicts

swapVars == <<predicts>>

event_classifier == predicts.event_classifier
ppc == predicts.ppc
model == predicts.model
original_classifier == predicts.original_classifier
classified_by == predicts.classified_by

\* variable of Part 12 (KafkaHandler, ml-server/kafka_handler.py): a record of
\*   consumed   history: the messages _process_message was given, in order
\*   sent       the responses given to self.producer.send, in order
VARIABLES kafka

kafkaVars == <<kafka>>

consumed == kafka.consumed
sent == kafka.sent

\* variable of Part 13 (HealthChecker, config/monitoring.py): a record of
\*   http_requests   history: number of record_request calls made
\*   ml_inferences   history: number of record_ml_inference calls made
VARIABLES health_calls

healthVars == <<health_calls>>

http_requests == health_calls.http_requests
ml_inferences == health_calls.ml_inferences

\* variable of Part 14 (ModelCache,
\* ml-server/optimization/inference_optimizer.py): a record of
\*   max_size       self.max_size
\*   cache          self.cache: key -> value
\*   access_times   self.access_times: key -> time of the last hit or set
\*   key_order      the keys of self.access_times in the order the dict holds them
\*   hit_count      self.hit_count
\*   miss_count     self.miss_count
\*   now            what time.time() returns
\*   cache_call     history: the last call, the keys held before it, its result
VARIABLES model_cache

cacheVars == <<model_cache>>

max_size == model_cache.max_size
cache == model_cache.cache
access_times == model_cache.access_times
key_order == model_cache.key_order
hit_count == model_cache.hit_count
miss_count == model_cache.miss_count
now == model_cache.now
cache_call == model_cache.cache_call

\* the variables an action of one part leaves alone
notPipeline == <<regVars, loopVars, abVars, monVars, metVars, schedVars, execVars, wfVars, swapVars, kafkaVars, healthVars, cacheVars>>
notRegistry == <<pipeVars, loopVars, abVars, monVars, metVars, schedVars, execVars, wfVars, swapVars, kafkaVars, healthVars, cacheVars>>
notLoop == <<regVars, abVars, monVars, metVars, schedVars, execVars, wfVars, swapVars, kafkaVars, healthVars, cacheVars>>
notAB == <<pipeVars, regVars, loopVars, monVars, metVars, schedVars, execVars, wfVars, swapVars, kafkaVars, healthVars, cacheVars>>
notMonitor == <<pipeVars, regVars, loopVars, abVars, metVars, schedVars, execVars, wfVars, swapVars, kafkaVars, healthVars, cacheVars>>
notMetrics == <<pipeVars, regVars, loopVars, abVars, monVars, schedVars, execVars, wfVars, swapVars, kafkaVars, healthVars, cacheVars>>
notScheduler == <<pipeVars, regVars, loopVars, abVars, monVars, metVars, execVars, wfVars, swapVars, kafkaVars, healthVars, cacheVars>>
notExec == <<pipeVars, regVars, loopVars, abVars, monVars, metVars, schedVars, wfVars, swapVars, kafkaVars, healthVars, cacheVars>>
notWorkflow == <<pipeVars, regVars, loopVars, abVars, monVars, metVars, schedVars, execVars, swapVars, kafkaVars, healthVars, cacheVars>>
notSwap == <<pipeVars, regVars, loopVars, abVars, monVars, metVars, schedVars, execVars, wfVars, kafkaVars, healthVars, cacheVars>>
notKafka == <<pipeVars, regVars, loopVars, abVars, monVars, metVars, schedVars, execVars, wfVars, swapVars, healthVars, cacheVars>>
notCache == <<pipeVars, regVars, loopVars, abVars, monVars, metVars, schedVars, execVars, wfVars, swapVars, kafkaVars, healthVars>>

\* the coroutines that await _trigger_pipeline (_monitor_drift and
\* _monitor_performance), named by the TriggerCondition they pass
Callers == {"data_drift", "performance_degradation"}

ModelName == "event_classifier"

Put(f, k, v) == [x \in (DOMAIN f) \cup {k} |-> IF x = k THEN v ELSE f[x]]

\* an empty dict
EmptyDict == [t \in {} |-> 0]

PipelineInit ==
    /\ tasks = EmptyDict
    /\ notifications \in BOOLEAN
    /\ is_running = FALSE
    /\ task_results = EmptyDict
    /\ pipeline_state = EmptyDict
    /\ pc = [p \in Callers |-> "idle"]
    /\ execution_plan = <<>>
    /\ batch = 0
    /\ pipeline_success = TRUE
    /\ tpc = [t \in TaskIds |-> "idle"]
    /\ attempt = [t \in TaskIds |-> 0]
    /\ execs = [t \in TaskIds |-> 0]
    /\ delays = [t \in TaskIds |-> <<>>]
    /\ settled = {}
    /\ seen = [t \in TaskIds |-> {}]
    /\ lastOutcome = [t \in TaskIds |-> "none"]
    /\ runs = 0
    /\ accepted = 0
    /\ dropped = FALSE
    /\ notified = <<>>

\* TaskResult values: the fields the pipeline sets (times are not modelled)
TaskResult(status, output, error) == [status |-> status, output |-> output, error |-> error]

\* task.dependencies or []
Dependencies(t) == tasks[t].dependencies

\* mutant of IsReady: the dependencies are not looked at
IsReadyIgnoringDependencies(t, completed_tasks) == TRUE

\* all(dep in completed_tasks for dep in dependencies), line 250
IsReady(t, completed_tasks) == Dependencies(t) \subseteq completed_tasks

\* _build_execution_plan: the loop of lines 243-260, from (remaining, completed)
RECURSIVE BuildPlan(_, _)
BuildPlan(remaining_tasks, completed_tasks) ==
    IF remaining_tasks = {} THEN <<>>
    ELSE LET ready_tasks == {t \in remaining_tasks : IsReady(t, completed_tasks)}
         IN  IF ready_tasks = {}
             THEN <<>>   \* logger.error(...); break
             ELSE <<ready_tasks>> \o BuildPlan(remaining_tasks \ ready_tasks,
                                               completed_tasks \cup ready_tasks)

\* mutant of _build_execution_plan: every registered task in one batch
PlanInOneBatch == IF DOMAIN tasks = {} THEN <<>> ELSE <<DOMAIN tasks>>

_build_execution_plan == BuildPlan(DOMAIN tasks, {})

\* the tasks of the batch being executed
CurrentBatch == IF batch \in 1..Len(execution_plan) THEN execution_plan[batch] ELSE {}

\* range(task_config.retry_count + 1): the number of iterations of the retry loop
MaxAttempts(t) == IF tasks[t].retry_count + 1 > 0 THEN tasks[t].retry_count + 1 ELSE 0

\* mutant of Backoff: the same delay before every retry
BackoffConstant(a) == 2

\* asyncio.sleep(2 ** attempt)
Backoff(a) == 2 ^ a

\* mutant of FailedResult: the last failure is left in the RETRY status
FailedResultAsRetry(o) == TaskResult("retry", "empty", o)

\* the TaskResult of lines 306-313 and 323-330: FAILED, no output, the error
FailedResult(o) == TaskResult("failed", "empty", o)

\* state.get(key, {}) as the predefined task functions read their inputs:
\* the dependency keys that the state handed to the function holds
StateKeysSeen(t) == {d \in Dependencies(t) : d \in DOMAIN pipeline_state}

\* mutant of AlreadyRunning: the flag is not consulted
AlreadyRunningNeverSeen == FALSE

\* the guard of _trigger_pipeline, evaluated under self.lock
AlreadyRunning == is_running

\* the ids add_task can be called with (see add_task)
Registrable == IF accepted = 0 THEN AddedIds \ DOMAIN tasks ELSE {}

\* add_task: self.tasks[task_id] = task_config.  Tasks are registered before
\* triggers are served, as create_standard_retraining_pipeline does; registering
\* an id again replaces the entry, which gives a state reached by registering
\* the replacement in the first place.
add_task(t, cfg) ==
    /\ accepted = 0
    /\ t \notin DOMAIN tasks
    /\ tasks' = Put(tasks, t, cfg)
    /\ UNCHANGED <<notifications, is_running, task_results, pipeline_state, pc,
                   execution_plan, batch, pipeline_success, tpc, attempt, execs, delays,
                   settled, seen, lastOutcome, runs, accepted, dropped, notified>>
    /\ UNCHANGED notPipeline

\* _trigger_pipeline, lines 164-169: the critical section under self.lock
TriggerAccepted(p) ==
    /\ pc[p] = "idle"
    /\ ~AlreadyRunning
    /\ accepted < MaxRuns
    /\ is_running' = TRUE
    /\ pc' = [pc EXCEPT ![p] = "triggered"]
    /\ accepted' = accepted + 1
    /\ UNCHANGED <<tasks, notifications, task_results, pipeline_state,
                   execution_plan, batch, pipeline_success, tpc, attempt, execs, delays,
                   settled, seen, lastOutcome, runs, dropped, notified>>
    /\ UNCHANGED notPipeline

\* _trigger_pipeline, lines 165-167: "Pipeline already running, skipping trigger"
TriggerDropped(p) ==
    /\ pc[p] = "idle"
    /\ AlreadyRunning
    /\ dropped' = TRUE
    /\ UNCHANGED <<tasks, notifications, is_running, task_results, pipeline_state, pc,
                   execution_plan, batch, pipeline_success, tpc, attempt, execs, delays,
                   settled, seen, lastOutcome, runs, accepted, notified>>
    /\ UNCHANGED notPipeline

\* _execute_pipeline, lines 180-192: fresh pipeline_state, then the plan
ExecutePipelineStart(p) ==
    /\ pc[p] = "triggered"
    /\ pipeline_success' = TRUE
    /\ pipeline_state' = [trigger |-> p, start_time |-> runs + 1, model_name |-> ModelName]
    /\ execution_plan' = _build_execution_plan
    /\ batch' = 1
    /\ pc' = [pc EXCEPT ![p] = IF _build_execution_plan = <<>> THEN "complete" ELSE "batch"]
    /\ runs' = runs + 1
    /\ tpc' = [t \in TaskIds |-> "idle"]
    /\ attempt' = [t \in TaskIds |-> 0]
    /\ execs' = [t \in TaskIds |-> 0]
    /\ delays' = [t \in TaskIds |-> <<>>]
    /\ settled' = {}
    /\ seen' = [t \in TaskIds |-> {}]
    /\ lastOutcome' = [t \in TaskIds |-> "none"]
    /\ notified' = <<>>
    /\ dropped' = FALSE
    /\ UNCHANGED <<tasks, notifications, is_running, task_results, accepted>>
    /\ UNCHANGED notPipeline

\* _execute_pipeline, lines 195-202: one _execute_task coroutine per task of the
\* batch, handed to asyncio.gather
DispatchBatch(p) ==
    /\ pc[p] = "batch"
    /\ tpc' = [t \in TaskIds |-> IF t \in CurrentBatch THEN "created" ELSE tpc[t]]
    /\ pc' = [pc EXCEPT ![p] = "gather"]
    /\ UNCHANGED <<tasks, notifications, is_running, task_results, pipeline_state,
                   execution_plan, batch, pipeline_success, attempt, execs, delays,
                   settled, seen, lastOutcome, runs, accepted, dropped, notified>>
    /\ UNCHANGED notPipeline

\* the task function is called with self.pipeline_state (lines 274-283)
CallFunction(t, a) ==
    /\ tpc' = [tpc EXCEPT ![t] = "running"]
    /\ attempt' = [attempt EXCEPT ![t] = a]
    /\ execs' = [execs EXCEPT ![t] = @ + 1]
    /\ seen' = [seen EXCEPT ![t] = StateKeysSeen(t)]

\* _execute_task, lines 266-283: entry of the coroutine.  With an empty
\* range(retry_count + 1) the loop body never runs and line 332 reads the
\* unassigned local `result`: the coroutine raises.
TaskStart(t) ==
    /\ tpc[t] = "created"
    /\ \/ /\ MaxAttempts(t) > 0
          /\ CallFunction(t, 0)
          /\ UNCHANGED lastOutcome
       \/ /\ MaxAttempts(t) = 0
          /\ tpc' = [tpc EXCEPT ![t] = "raised"]
          /\ lastOutcome' = [lastOutcome EXCEPT ![t] = "unbound"]
          /\ UNCHANGED <<attempt, execs, seen>>
    /\ UNCHANGED <<tasks, notifications, is_running, task_results, pipeline_state, pc,
                   execution_plan, batch, pipeline_success, delays,
                   settled, runs, accepted, dropped, notified>>
    /\ UNCHANGED notPipeline

\* mutant of AfterSuccess: the retry loop goes on after a success
AfterSuccessLoopsOn == "sleeping"

\* return result, line 296: the coroutine ends with the first success
AfterSuccess == "done"

\* _execute_task, lines 285-296: the call returned within the timeout
TaskSucceeds(t) ==
    /\ tpc[t] = "running"
    /\ task_results' = Put(task_results, t, TaskResult("success", "output", "none"))
    /\ tpc' = [tpc EXCEPT ![t] = AfterSuccess]
    /\ settled' = settled \cup {t}
    /\ lastOutcome' = [lastOutcome EXCEPT ![t] = "return"]
    /\ UNCHANGED <<tasks, notifications, is_running, pipeline_state, pc,
                   execution_plan, batch, pipeline_success, attempt, execs, delays,
                   seen, runs, accepted, dropped, notified>>
    /\ UNCHANGED notPipeline

\* mutant of RetriesRemain: an attempt ended by the timeout is not retried
RetriesRemainUnlessTimeout(t, o) == o # "timeout" /\ attempt[t] < tasks[t].retry_count

\* if attempt < task_config.retry_count, line 302 (except asyncio.TimeoutError)
\* and line 319 (except Exception)
RetriesRemain(t, o) == attempt[t] < tasks[t].retry_count

\* _execute_task, lines 298-333: the call raised (o = "raise") or was ended by
\* wait_for's timeout (o = "timeout")
TaskFails(t, o) ==
    /\ tpc[t] = "running"
    /\ \/ /\ RetriesRemain(t, o)
          /\ delays' = [delays EXCEPT ![t] = Append(@, Backoff(attempt[t]))]
          /\ tpc' = [tpc EXCEPT ![t] = "sleeping"]
          /\ UNCHANGED <<task_results, settled, lastOutcome>>
       \/ /\ ~RetriesRemain(t, o)
          /\ task_results' = Put(task_results, t, FailedResult(o))
          /\ tpc' = [tpc EXCEPT ![t] = "done"]
          /\ settled' = settled \cup {t}
          /\ lastOutcome' = [lastOutcome EXCEPT ![t] = o]
          /\ UNCHANGED delays
    /\ UNCHANGED <<tasks, notifications, is_running, pipeline_state, pc,
                   execution_plan, batch, pipeline_success, attempt, execs,
                   seen, runs, accepted, dropped, notified>>
    /\ UNCHANGED notPipeline

\* _execute_task, lines 303-304 / 320-321: the backoff sleep is over, `continue`
TaskRetries(t) ==
    /\ tpc[t] = "sleeping"
    /\ CallFunction(t, attempt[t] + 1)
    /\ UNCHANGED <<tasks, notifications, is_running, task_results, pipeline_state, pc,
                   execution_plan, batch, pipeline_success, delays,
                   settled, lastOutcome, runs, accepted, dropped, notified>>
    /\ UNCHANGED notPipeline

\* mutant of AllReturned: gather returns with the first coroutine that ends
FirstReturned == \E t \in CurrentBatch : tpc[t] \in {"done", "raised"}

\* asyncio.gather(*batch_tasks, return_exceptions=True), line 202: every
\* coroutine of the batch has returned or raised
AllReturned == \A t \in CurrentBatch : tpc[t] \in {"done", "raised"}

\* _execute_pipeline, lines 202-221: gather returned (every coroutine of the
\* batch returned or raised); the results are scanned in batch order up to the
\* first exception.  The order of a batch is the iteration order of a Python
\* set, so the first exception is any one of the raised coroutines.
BatchGathered(p) ==
    /\ pc[p] = "gather"
    /\ AllReturned
    /\ LET raised == {t \in CurrentBatch : tpc[t] = "raised"}
       IN  \/ /\ raised # {}
              /\ \E f \in raised :
                    /\ task_results' = Put(task_results, f,
                                           TaskResult("failed", "empty", "unbound"))
                    /\ settled' = settled \cup {f}
              /\ pipeline_success' = FALSE
              /\ pc' = [pc EXCEPT ![p] = "complete"]
              /\ UNCHANGED batch
           \/ /\ raised = {}
              /\ batch < Len(execution_plan)
              /\ batch' = batch + 1
              /\ pc' = [pc EXCEPT ![p] = "batch"]
              /\ UNCHANGED <<task_results, settled, pipeline_success>>
           \/ /\ raised = {}
              /\ batch = Len(execution_plan)
              /\ pc' = [pc EXCEPT ![p] = "complete"]
              /\ UNCHANGED <<task_results, settled, pipeline_success, batch>>
    /\ UNCHANGED <<tasks, notifications, is_running, pipeline_state,
                   execution_plan, tpc, attempt, execs, delays,
                   seen, lastOutcome, runs, accepted, dropped, notified>>
    /\ UNCHANGED notPipeline

\* _send_notifications(success, duration, trigger, error): the message logged
\* (pipeline_id, model_name, duration and timestamp are not modelled)
Notification(success, trigger, error) ==
    [status |-> IF success THEN "SUCCESS" ELSE "FAILED",
     trigger |-> trigger, error |-> error]

\* mutant of NotificationsConfigured: failed runs are not announced
NotificationsOnSuccessOnly == notifications /\ pipeline_success

\* _send_notifications, lines 337-338: if not self.config.notifications: return
NotificationsConfigured == notifications

\* _execute_pipeline, lines 223-230, and _send_notifications, lines 335-351
PipelineCompletes(p) ==
    /\ pc[p] = "complete"
    /\ \/ /\ NotificationsConfigured
          /\ notified' = Append(notified, Notification(pipeline_success, p, "none"))
       \/ /\ ~NotificationsConfigured
          /\ UNCHANGED notified
    /\ pc' = [pc EXCEPT ![p] = "finally"]
    /\ UNCHANGED <<tasks, notifications, is_running, task_results, pipeline_state,
                   execution_plan, batch, pipeline_success, tpc, attempt, execs, delays,
                   settled, seen, lastOutcome, runs, accepted, dropped>>
    /\ UNCHANGED notPipeline

\* mutant of FlagAfterRun: the flag is cleared after a run that was not
\* aborted only
FlagAfterCleanRun == ~pipeline_success

\* self.is_running = False, line 176
FlagAfterRun == FALSE

\* _trigger_pipeline, lines 174-176: finally, under self.lock
TriggerFinally(p) ==
    /\ pc[p] = "finally"
    /\ is_running' = FlagAfterRun
    /\ pc' = [pc EXCEPT ![p] = "idle"]
    /\ UNCHANGED <<tasks, notifications, task_results, pipeline_state,
                   execution_plan, batch, pipeline_success, tpc, attempt, execs, delays,
                   settled, seen, lastOutcome, runs, accepted, dropped, notified>>
    /\ UNCHANGED notPipeline

PipelineNext ==
    \/ \E t \in Registrable : \E cfg \in TaskConfig : add_task(t, cfg)
    \/ \E p \in Callers : TriggerAccepted(p)
    \/ \E p \in Callers : TriggerDropped(p)
    \/ \E p \in Callers : ExecutePipelineStart(p)
    \/ \E p \in Callers : DispatchBatch(p)
    \/ \E t \in TaskIds : TaskStart(t)
    \/ \E t \in TaskIds : TaskSucceeds(t)
    \/ \E t \in TaskIds, o \in {"raise", "timeout"} : TaskFails(t, o)
    \/ \E t \in TaskIds : TaskRetries(t)
    \/ \E p \in Callers : BatchGathered(p)
    \/ \E p \in Callers : PipelineCompletes(p)
    \/ \E p \in Callers : TriggerFinally(p)

(***************************************************************************)
(* Part 2: ModelRegistry stage promotion.  models/model_registry.py is not *)
(* among the sources: register and promote follow the Model Registry       *)
(* section of the specification; their callers are main.promote_model and  *)
(* EnhancedWorkflow.train_and_register_model.                              *)
(***************************************************************************)
\* number of versions that are registered
MaxVersions == 2

\* "api" is a request to POST /models/{model_name}/promote; "workflow" is a
\* train_and_register_model(auto_promote=True) call
Clients == {"api", "workflow"}

Stages == {"None", "Staging", "Production", "Archived"}

\* target stages main.promote_model lets through (main.py line 333)
ApiTargets == {"Staging", "Production", "Archived"}

\* version ids a request may name: the registered ones and one beyond them
VersionIds == 1..(MaxVersions + 1)

NoCall == [version |-> 0, target |-> "None"]

RegistryInit ==
    /\ versions = {}
    /\ stage = EmptyDict
    /\ promotion_lock = "free"
    /\ rpc = [c \in Clients |-> "idle"]
    /\ rcall = [c \in Clients |-> NoCall]
    /\ rresult = [c \in Clients |-> "none"]
    /\ rsaved = EmptyDict
    /\ runchanged = [c \in Clients |-> FALSE]

\* the versions of the model that hold Production
ProductionHolders == {v \in versions : stage[v] = "Production"}

\* mutant of LockFree: the critical section is entered without the lock
LockNotTaken == TRUE

\* the per-model_name critical section can be entered
LockFree == promotion_lock = "free"

\* where a client continues when its promote call has returned:
\* train_and_register_model validates after the promotion to Staging (the
\* value promote_model returned is not looked at, line 203)
AfterPromote(c) ==
    IF c = "workflow" /\ rcall[c].target = "Staging" THEN "validate" ELSE "idle"

\* main.promote_model, lines 330-336: the target stage is checked, then
\* model_registry.promote_model(model_name, version, ModelStage(target_stage))
ApiPromote(v, target) ==
    /\ rpc["api"] = "idle"
    /\ target \in ApiTargets
    /\ rpc' = [rpc EXCEPT !["api"] = "acquire"]
    /\ rcall' = [rcall EXCEPT !["api"] = [version |-> v, target |-> target]]
    /\ rresult' = [rresult EXCEPT !["api"] = "none"]
    /\ runchanged' = [runchanged EXCEPT !["api"] = FALSE]
    /\ UNCHANGED <<versions, stage, promotion_lock, rsaved>>
    /\ UNCHANGED notRegistry

\* train_and_register_model, lines 186-203: register_model gives a new version
\* in stage None, then promote_model(model_type, version, ModelStage.STAGING)
WorkflowRegister ==
    /\ rpc["workflow"] = "idle"
    /\ Cardinality(versions) < MaxVersions
    /\ LET version == Cardinality(versions) + 1
       IN  /\ versions' = versions \cup {version}
           /\ stage' = Put(stage, version, "None")
           /\ rcall' = [rcall EXCEPT !["workflow"] =
                            [version |-> version, target |-> "Staging"]]
    /\ rpc' = [rpc EXCEPT !["workflow"] = "acquire"]
    /\ rresult' = [rresult EXCEPT !["workflow"] = "none"]
    /\ runchanged' = [runchanged EXCEPT !["workflow"] = FALSE]
    /\ UNCHANGED <<promotion_lock, rsaved>>
    /\ UNCHANGED notRegistry

\* train_and_register_model, lines 205-210: _validate_model decides whether
\* promote_model(model_type, version, ModelStage.PRODUCTION) is called
WorkflowValidate(ok) ==
    /\ rpc["workflow"] = "validate"
    /\ \/ /\ ok
          /\ rpc' = [rpc EXCEPT !["workflow"] = "acquire"]
          /\ rcall' = [rcall EXCEPT !["workflow"].target = "Production"]
       \/ /\ ~ok
          /\ rpc' = [rpc EXCEPT !["workflow"] = "idle"]
          /\ UNCHANGED rcall
    /\ UNCHANGED <<versions, stage, promotion_lock, rresult, rsaved, runchanged>>
    /\ UNCHANGED notRegistry

\* promote: entry of the per-model_name critical section
PromoteAcquire(c) ==
    /\ rpc[c] = "acquire"
    /\ LockFree
    /\ promotion_lock' = c
    /\ rsaved' = stage
    /\ rpc' = [rpc EXCEPT ![c] = "verify"]
    /\ UNCHANGED <<versions, stage, rcall, rresult, runchanged>>
    /\ UNCHANGED notRegistry

\* mutant of AlreadyProduction: the stage of the version is not looked at
AlreadyProductionNotSeen(c) == FALSE

\* the call asks for Production for the version that holds it
AlreadyProduction(c) ==
    rcall[c].target = "Production" /\ stage[rcall[c].version] = "Production"

\* promote, step (a): the version exists; a version that holds Production
\* already is a success with no state change
PromoteVerify(c) ==
    /\ rpc[c] = "verify"
    /\ \/ /\ rcall[c].version \notin versions
          /\ rresult' = [rresult EXCEPT ![c] = "failure"]
          /\ rpc' = [rpc EXCEPT ![c] = "idle"]
          /\ promotion_lock' = "free"
          /\ rsaved' = EmptyDict
          /\ UNCHANGED runchanged
       \/ /\ rcall[c].version \in versions
          /\ AlreadyProduction(c)
          /\ rresult' = [rresult EXCEPT ![c] = "success"]
          /\ runchanged' = [runchanged EXCEPT ![c] = TRUE]
          /\ rpc' = [rpc EXCEPT ![c] = "idle"]
          /\ promotion_lock' = "free"
          /\ rsaved' = EmptyDict
       \/ /\ rcall[c].version \in versions
          /\ rcall[c].target = "Production"
          /\ ~AlreadyProduction(c)
          /\ rpc' = [rpc EXCEPT ![c] = "demote"]
          /\ UNCHANGED <<rresult, promotion_lock, rsaved, runchanged>>
       \/ /\ rcall[c].version \in versions
          /\ rcall[c].target # "Production"
          /\ rpc' = [rpc EXCEPT ![c] = "install"]
          /\ UNCHANGED <<rresult, promotion_lock, rsaved, runchanged>>
    /\ UNCHANGED <<versions, stage, rcall>>
    /\ UNCHANGED notRegistry

\* promote, step (b): the holder of Production is demoted to Archived
PromoteDemote(c) ==
    /\ rpc[c] = "demote"
    /\ stage' = [v \in versions |-> IF stage[v] = "Production" THEN "Archived" ELSE stage[v]]
    /\ rpc' = [rpc EXCEPT ![c] = "install"]
    /\ UNCHANGED <<versions, promotion_lock, rcall, rresult, rsaved, runchanged>>
    /\ UNCHANGED notRegistry

\* mutant of RolledBack: the stages are left as the failed call made them
NotRolledBack(saved) == stage

\* the stages after a failed call: those the call found when it entered the
\* critical section (versions registered since keep their stage)
RolledBack(saved) ==
    [v \in DOMAIN stage |-> IF v \in DOMAIN saved THEN saved[v] ELSE stage[v]]

\* promote, step (c): the version takes the target stage; the critical
\* section ends and the call returns success.  When the store fails
\* (StorageError) nothing of the call stays applied and the call returns
\* failure.
PromoteInstall(c, stored) ==
    /\ rpc[c] = "install"
    /\ \/ /\ stored
          /\ stage' = [stage EXCEPT ![rcall[c].version] = rcall[c].target]
          /\ rresult' = [rresult EXCEPT ![c] = "success"]
       \/ /\ ~stored
          /\ stage' = RolledBack(rsaved)
          /\ rresult' = [rresult EXCEPT ![c] = "failure"]
    /\ promotion_lock' = "free"
    /\ rsaved' = EmptyDict
    /\ rpc' = [rpc EXCEPT ![c] = AfterPromote(c)]
    /\ UNCHANGED <<versions, rcall, runchanged>>
    /\ UNCHANGED notRegistry

RegistryNext ==
    \/ \E v \in VersionIds, target \in ApiTargets : ApiPromote(v, target)
    \/ WorkflowRegister
    \/ \E ok \in BOOLEAN : WorkflowValidate(ok)
    \/ \E c \in Clients : PromoteAcquire(c)
    \/ \E c \in Clients : PromoteVerify(c)
    \/ \E c \in Clients : PromoteDemote(c)
    \/ \E c \in Clients, stored \in BOOLEAN : PromoteInstall(c, stored)

(***************************************************************************)
(* Part 3: the monitor loops _monitor_drift and _monitor_performance, which *)
(* read the dashboard of self.monitor and await _trigger_pipeline.          *)
(***************************************************************************)
\* statistics.success_rate in per cent: one value on each side of 0.90
SuccessRates == {85, 95}

HealthStatuses == {"healthy", "critical"}

\* the fields of the dashboard the loops read (statistics.recent_accuracy is
\* taken as absent: stats.get("recent_accuracy", 1.0) is then 1.0)
Dashboards == [health_status : HealthStatuses, success_rate : SuccessRates]

LoopInit ==
    /\ dashboard = [health_status |-> "healthy", success_rate |-> 95]
    /\ mpc = [p \in Callers |-> "sleeping"]
    /\ degradation_runs = 0

\* mutant of Degraded: the threshold is never crossed
DegradedNever(d) == FALSE

\* stats.get("success_rate", 1.0) < 0.90, line 151
Degraded(d) == d.success_rate < 90

\* the condition under which loop p calls _trigger_pipeline (lines 134, 151)
LoopCondition(p) ==
    IF p = "performance_degradation" THEN Degraded(dashboard)
    ELSE dashboard.health_status = "critical"

\* the monitor's aggregates move: the next dashboard read returns d.  The run
\* count of the degradation is kept while success_rate stays below 0.90.
DashboardChanges(d) ==
    /\ d # dashboard
    /\ dashboard' = d
    /\ degradation_runs' = IF Degraded(d) /\ Degraded(dashboard) THEN degradation_runs ELSE 0
    /\ UNCHANGED mpc
    /\ UNCHANGED pipeVars
    /\ UNCHANGED notLoop

\* one iteration of a monitor loop up to its first suspension: the dashboard
\* is read, and when the condition holds _trigger_pipeline is entered and its
\* critical section (lines 164-169) runs; nothing is awaited in between.
MonitorTick(p) ==
    /\ mpc[p] = "sleeping"
    /\ pc[p] = "idle"
    /\ \/ /\ ~LoopCondition(p)
          /\ UNCHANGED <<is_running, pc, accepted, dropped, mpc, degradation_runs>>
       \/ /\ LoopCondition(p)
          /\ AlreadyRunning
          /\ dropped' = TRUE
          /\ UNCHANGED <<is_running, pc, accepted, mpc, degradation_runs>>
       \/ /\ LoopCondition(p)
          /\ ~AlreadyRunning
          /\ accepted < MaxRuns
          /\ is_running' = TRUE
          /\ pc' = [pc EXCEPT ![p] = "triggered"]
          /\ accepted' = accepted + 1
          /\ mpc' = [mpc EXCEPT ![p] = "awaiting"]
          /\ degradation_runs' = IF p = "performance_degradation"
                                 THEN degradation_runs + 1 ELSE degradation_runs
          /\ UNCHANGED dropped
    /\ UNCHANGED <<tasks, notifications, task_results, pipeline_state,
                   execution_plan, batch, pipeline_success, tpc, attempt, execs, delays,
                   settled, seen, lastOutcome, runs, notified>>
    /\ UNCHANGED dashboard
    /\ UNCHANGED notLoop

\* _trigger_pipeline has returned to the loop: asyncio.sleep(300) / (600)
MonitorSleeps(p) ==
    /\ mpc[p] = "awaiting"
    /\ pc[p] = "idle"
    /\ mpc' = [mpc EXCEPT ![p] = "sleeping"]
    /\ UNCHANGED <<dashboard, degradation_runs>>
    /\ UNCHANGED pipeVars
    /\ UNCHANGED notLoop

\* the tasks of the pipeline the loops trigger: the first two tasks of
\* create_standard_retraining_pipeline, with a retry_count within the bounds
LoopTasks ==
    {[t \in AddedIds |->
        [dependencies |-> IF t = "validate_data_quality"
                          THEN {"collect_training_data"} ELSE {},
         retry_count |-> IF t = "collect_training_data" THEN r ELSE 0,
         on_failure |-> "fail"]] : r \in 0..1}

(***************************************************************************)
(* Part 4: the A/B testing framework.  models/ab_testing.py is not among   *)
(* the sources: the operations follow section 4.2 of the specification;    *)
(* their callers are EnhancedWorkflow (start_ab_test) and the experiment    *)
(* endpoints of main.py.                                                    *)
(***************************************************************************)
\* number of results that are recorded, over all experiments
MaxResults == 3
\* largest minimum_sample_size of an experiment
MaxSampleSize == 2

\* the experiment_id values callers create experiments with
ExperimentIds == {"experiment_1", "experiment_2"}

\* an experiment_id no experiment is created with
NoExperiment == "experiment_0"

\* ids a call may name
RequestedIds == ExperimentIds \cup {NoExperiment}

ModelTypes == {"event_classifier", "schedule_optimizer"}

Variant(name, traffic_percentage) ==
    [name |-> name, traffic_percentage |-> traffic_percentage]

\* the variant lists a caller submits: an even split, a split above 100
\* and a single variant
VariantLists ==
    { <<Variant("control", 50), Variant("treatment", 50)>>,
      <<Variant("control", 60), Variant("treatment", 60)>>,
      <<Variant("control", 100)>> }

\* the identifiers of requests; NoIdentifier is request.get("request_id")
\* of a request without one
Identifiers == {"req-a", "req-b"}
NoIdentifier == "None"

\* the deterministic hash of an identifier into [0, 100)
Bucket(identifier) == IF identifier = "req-a" THEN 17 ELSE 71

ABInit ==
    /\ experiments = EmptyDict
    /\ ab_results = EmptyDict
    /\ ab_reply = [op |-> "none", experiment |-> NoExperiment, value |-> "none"]
    /\ allocations = EmptyDict
    /\ record_calls = EmptyDict

Reply(op, e, value) == [op |-> op, experiment |-> e, value |-> value]

RECURSIVE TotalTraffic(_)
TotalTraffic(variants) ==
    IF variants = <<>> THEN 0
    ELSE Head(variants).traffic_percentage + TotalTraffic(Tail(variants))

\* the names of a list of variants
RECURSIVE VariantNames(_)
VariantNames(variants) ==
    IF variants = <<>> THEN {}
    ELSE {Head(variants).name} \cup VariantNames(Tail(variants))

\* the experiments of a model_type that are Running
RunningFor(model_type) ==
    {e \in DOMAIN experiments :
        experiments[e].model_type = model_type /\ experiments[e].status = "Running"}

\* mutant of Valid: only the shape of the variant list is checked
ValidShapeOnly(model_type, variants) ==
    TotalTraffic(variants) <= 100 /\ Len(variants) >= 2

\* the three conditions create_experiment checks before it stores anything
Valid(model_type, variants) ==
    /\ RunningFor(model_type) = {}
    /\ TotalTraffic(variants) <= 100
    /\ Len(variants) >= 2

\* create_experiment(Experiment) -> id, for an Experiment with a fresh
\* experiment_id
create_experiment(id, model_type, variants, minimum_sample_size) ==
    /\ id \notin DOMAIN experiments
    /\ \/ /\ Valid(model_type, variants)
          /\ experiments' = Put(experiments, id,
                 [model_type |-> model_type, variants |-> variants,
                  status |-> "Running",
                  minimum_sample_size |-> minimum_sample_size])
          /\ ab_results' = Put(ab_results, id, <<>>)
          /\ allocations' = Put(allocations, id,
                 [u \in Identifiers |-> [variants |-> {}, repeated |-> FALSE]])
          /\ record_calls' = Put(record_calls, id, 0)
          /\ ab_reply' = Reply("create_experiment", id, "created")
       \/ /\ ~Valid(model_type, variants)
          /\ ab_reply' = Reply("create_experiment", id, "ValidationError")
          /\ UNCHANGED <<experiments, ab_results, allocations, record_calls>>
    /\ UNCHANGED notAB

\* EnhancedWorkflow.start_ab_test, lines 226-261: with the framework enabled
\* the Experiment(...) call evaluates timedelta(hours=duration_hours), a name
\* the module does not import (line 6 imports datetime only), so the call
\* raises NameError before create_experiment (line 263) is reached and
\* self.active_experiment stays None
start_ab_test ==
    /\ ab_reply' = Reply("start_ab_test", NoExperiment, "NameError")
    /\ UNCHANGED <<experiments, ab_results, allocations, record_calls>>
    /\ UNCHANGED notAB

\* the variant whose cumulative traffic range holds the bucket
RECURSIVE VariantAt(_, _)
VariantAt(variants, bucket) ==
    IF variants = <<>> THEN "unallocated"
    ELSE IF bucket < Head(variants).traffic_percentage THEN Head(variants).name
    ELSE VariantAt(Tail(variants), bucket - Head(variants).traffic_percentage)

\* mutant of Allocatable: the status of the experiment is not looked at
AllocatableAlways(e) == TRUE

\* an experiment allocates traffic while it is Running
Allocatable(e) == experiments[e].status = "Running"

\* mutant of StickyVariant: the variant depends on what was recorded so far
StickyVariantByLoad(e, identifier) ==
    VariantAt(experiments[e].variants, (Bucket(identifier) + 40 * Len(ab_results[e])) % 100)

\* the variant of an identifier: a function of the identifier and of the
\* experiment's variants only
StickyVariant(e, identifier) == VariantAt(experiments[e].variants, Bucket(identifier))

\* get_variant(experiment_id, user_id) -> Variant
get_variant(e, identifier) ==
    /\ \/ /\ e \notin DOMAIN experiments
          /\ ab_reply' = Reply("get_variant", e, "NotFoundError")
          /\ UNCHANGED allocations
       \/ /\ e \in DOMAIN experiments
          /\ ~Allocatable(e)
          /\ ab_reply' = Reply("get_variant", e, "rejected")
          /\ UNCHANGED allocations
       \/ /\ e \in DOMAIN experiments
          /\ Allocatable(e)
          /\ identifier \in Identifiers
          /\ ab_reply' = Reply("get_variant", e, StickyVariant(e, identifier))
          /\ allocations' = [allocations EXCEPT ![e][identifier] =
                 [variants |-> @.variants \cup {StickyVariant(e, identifier)},
                  repeated |-> @.variants # {}]]
       \/ /\ e \in DOMAIN experiments
          /\ Allocatable(e)
          /\ identifier = NoIdentifier
          /\ \E v \in VariantNames(experiments[e].variants) :
                ab_reply' = Reply("get_variant", e, v)
          /\ UNCHANGED allocations
    /\ UNCHANGED <<experiments, ab_results, record_calls>>
    /\ UNCHANGED notAB

ExperimentResult(variant_name, success) ==
    [variant_name |-> variant_name, success |-> success]

\* mutant of Recorded: a result replaces the last one of its variant
RecordedOverwriting(results, r) ==
    IF \E i \in 1..Len(results) : results[i].variant_name = r.variant_name
    THEN [i \in 1..Len(results) |->
             IF results[i].variant_name = r.variant_name THEN r ELSE results[i]]
    ELSE Append(results, r)

\* record_result appends
Recorded(results, r) == Append(results, r)

\* the number of record_result calls made so far
RECURSIVE SumOver(_, _)
SumOver(f, S) ==
    IF S = {} THEN 0
    ELSE LET x == CHOOSE y \in S : TRUE IN f[x] + SumOver(f, S \ {x})
TotalRecorded == SumOver(record_calls, DOMAIN record_calls)

\* record_result(ExperimentResult) for a variant of experiment e
record_result(e, r) ==
    /\ e \in DOMAIN experiments
    /\ r.variant_name \in VariantNames(experiments[e].variants)
    /\ TotalRecorded < MaxResults
    /\ ab_results' = [ab_results EXCEPT ![e] = Recorded(@, r)]
    /\ record_calls' = [record_calls EXCEPT ![e] = @ + 1]
    /\ ab_reply' = Reply("record_result", e, "recorded")
    /\ UNCHANGED <<experiments, allocations>>
    /\ UNCHANGED notAB

\* the results recorded for a variant, and those among them with success
SampleSize(e, name) ==
    Cardinality({i \in 1..Len(ab_results[e]) : ab_results[e][i].variant_name = name})
Successes(e, name) ==
    Cardinality({i \in 1..Len(ab_results[e]) :
                    ab_results[e][i].variant_name = name /\ ab_results[e][i].success})

\* get_experiment_results(id): per variant the sample_size, the successes
\* behind success_rate, and whether minimum_sample_size is reached
get_experiment_results(e) ==
    [name \in VariantNames(experiments[e].variants) |->
        [sample_size |-> SampleSize(e, name),
         successes |-> Successes(e, name),
         reached |-> SampleSize(e, name) >= experiments[e].minimum_sample_size]]

\* the success_rate of a beats that of b (both sample sizes are positive)
Beats(e, a, b) ==
    Successes(e, a) * SampleSize(e, b) > Successes(e, b) * SampleSize(e, a)

\* mutant of EveryVariantReached: one variant with enough results suffices
SomeVariantReached(e) ==
    \E name \in VariantNames(experiments[e].variants) :
        get_experiment_results(e)[name].reached

\* condition (a) of recommend_winner
EveryVariantReached(e) ==
    \A name \in VariantNames(experiments[e].variants) :
        get_experiment_results(e)[name].reached

\* recommend_winner(id)
recommend_winner(e) ==
    LET names == VariantNames(experiments[e].variants)
        winners == {a \in names : SampleSize(e, a) > 0 /\
                        \A b \in names \ {a} : SampleSize(e, b) = 0 \/ Beats(e, a, b)}
    IN  IF EveryVariantReached(e) /\ winners # {}
        THEN CHOOSE a \in winners : TRUE
        ELSE "inconclusive"

\* stop_experiment(id): Running -> Stopped
Stopped(e) ==
    IF experiments[e].status = "Running"
    THEN [experiments EXCEPT ![e].status = "Stopped"]
    ELSE experiments

\* main.stop_experiment, lines 387-402: stop_experiment, then
\* get_experiment_results and recommend_winner make the response
stop_experiment(e) ==
    /\ \/ /\ e \in DOMAIN experiments
          /\ experiments' = Stopped(e)
          /\ ab_reply' = [op |-> "stop_experiment", experiment |-> e,
                          value |-> "completed",
                          results |-> get_experiment_results(e),
                          recommendation |-> recommend_winner(e)]
       \/ /\ e \notin DOMAIN experiments
          /\ ab_reply' = Reply("stop_experiment", e, "NotFoundError")
          /\ UNCHANGED experiments
    /\ UNCHANGED <<ab_results, allocations, record_calls>>
    /\ UNCHANGED notAB

\* the end_time of a Running experiment is reached: Running -> Completed
ExperimentCompletes(e) ==
    /\ e \in DOMAIN experiments
    /\ experiments[e].status = "Running"
    /\ experiments' = [experiments EXCEPT ![e].status = "Completed"]
    /\ UNCHANGED <<ab_results, ab_reply, allocations, record_calls>>
    /\ UNCHANGED notAB

\* the lifecycle of experiments: creation, allocation, stop and end
ABNext ==
    \/ \E id \in ExperimentIds, model_type \in ModelTypes, variants \in VariantLists,
          m \in 1..MaxSampleSize :
             create_experiment(id, model_type, variants, m)
    \/ start_ab_test
    \/ \E e \in RequestedIds, identifier \in Identifiers \cup {NoIdentifier} :
          get_variant(e, identifier)
    \/ \E e \in RequestedIds : stop_experiment(e)
    \/ \E e \in ExperimentIds : ExperimentCompletes(e)

\* the experiment the requests of the serving layer go through
ServedExperiment == "experiment_1"

\* one experiment, the requests it is asked to allocate and their results
ABServingNext ==
    \/ \E variants \in VariantLists, m \in 1..MaxSampleSize :
          create_experiment(ServedExperiment, ModelName, variants, m)
    \/ \E e \in {ServedExperiment, NoExperiment},
          identifier \in Identifiers \cup {NoIdentifier} :
             get_variant(e, identifier)
    \/ \E name \in {"control", "treatment"}, success \in BOOLEAN :
          record_result(ServedExperiment, ExperimentResult(name, success))
    \/ \E e \in {ServedExperiment, NoExperiment} : stop_experiment(e)
    \/ ExperimentCompletes(ServedExperiment)

(***************************************************************************)
(* Part 5: the model monitor as EnhancedWorkflow uses it.                   *)
(* models/monitoring.py is not among the sources: record_prediction,       *)
(* detect_drift and check_alerts follow section 4.3 of the specification;   *)
(* the alerts are those of _setup_default_alerts and the requests are those *)
(* of EnhancedWorkflow.process.                                             *)
(***************************************************************************)
\* number of requests whose samples the monitor holds at a time
MaxRequests == 2

\* Alert(...) as _setup_default_alerts registers them; success is sampled as
\* 0 or 100 and drift_score in hundredths, so 0.95 is 95 and 0.15 is 15
Alerts ==
    { [name |-> "low_success_rate", metric_name |-> "prediction", condition |-> "<",
       threshold |-> 95, window_seconds |-> 300, severity |-> "critical"],
      [name |-> "high_latency", metric_name |-> "latency_ms", condition |-> ">",
       threshold |-> 100, window_seconds |-> 300, severity |-> "warning"],
      [name |-> "drift_detected", metric_name |-> "drift_score", condition |-> ">",
       threshold |-> 15, window_seconds |-> 600, severity |-> "warning"] }

AlertNames == {a.name : a \in Alerts}

\* the values a request brings: its drift score, the latency measured for it
\* and what predict did
DriftScores == {10, 20}
Latencies == {50, 150}
Predicted == {"success", "failure", "raise"}

NoRequest == [predicted |-> "none", fault |-> FALSE, outcome |-> "none"]

MonitorInit ==
    /\ samples = <<>>
    /\ active_alerts = {}
    /\ prev_alerts = {}
    /\ last_op = "none"
    /\ request = NoRequest

\* a sample of a metric; age counts the periods of 300 seconds since it was
\* recorded
Sample(metric_name, value) == [metric_name |-> metric_name, value |-> value, age |-> 0]

\* the samples of an alert's metric that lie in its window
InWindow(a) ==
    {i \in 1..Len(samples) :
        samples[i].metric_name = a.metric_name /\ samples[i].age * 300 < a.window_seconds}

RECURSIVE SumValues(_)
SumValues(I) ==
    IF I = {} THEN 0
    ELSE LET i == CHOOSE j \in I : TRUE IN samples[i].value + SumValues(I \ {i})

\* aggregate(metric over window_seconds) <cond> threshold, the aggregate
\* being the mean of the window; an empty window satisfies no condition
ConditionHolds(a) ==
    /\ InWindow(a) # {}
    /\ IF a.condition = "<"
       THEN SumValues(InWindow(a)) < a.threshold * Cardinality(InWindow(a))
       ELSE SumValues(InWindow(a)) > a.threshold * Cardinality(InWindow(a))

\* the alerts whose condition holds now
Firing == {a.name : a \in {b \in Alerts : ConditionHolds(b)}}

\* mutant of Reported: an alert that fired once stays reported
ReportedOnceFired(firing) == active_alerts \cup firing

\* what check_alerts returns: alerts are stateless rules
Reported(firing) == firing

\* main.get_active_alerts, lines 442-454: alerts = monitor.check_alerts()
check_alerts ==
    /\ active_alerts' = Reported(Firing)
    /\ prev_alerts' = active_alerts
    /\ last_op' = "check_alerts"
    /\ UNCHANGED <<samples, request>>
    /\ UNCHANGED notMonitor

\* 300 seconds pass: samples older than the longest window are dropped
RECURSIVE Aged(_)
Aged(ss) ==
    IF ss = <<>> THEN <<>>
    ELSE IF (Head(ss).age + 1) * 300 >= 600 THEN Aged(Tail(ss))
    ELSE <<[Head(ss) EXCEPT !.age = @ + 1]>> \o Aged(Tail(ss))

TimePasses ==
    /\ samples # <<>>
    /\ samples' = Aged(samples)
    /\ last_op' = "time"
    /\ UNCHANGED <<active_alerts, prev_alerts, request>>
    /\ UNCHANGED notMonitor

\* mutant of RecordRaises: an internal error of the recording leaves the call
RecordRaisesOnFault(fault) == fault

\* record_prediction lets no internal error out
RecordRaises(fault) == FALSE

\* record_prediction(model_name, version, latency_ms, success, ...): the
\* samples after the call; an internal error is logged and nothing is stored
record_prediction(ss, latency_ms, success, fault) ==
    IF fault THEN ss
    ELSE ss \o <<Sample("prediction", IF success THEN 100 ELSE 0),
                 Sample("latency_ms", latency_ms)>>

\* the requests whose samples are held
RequestsHeld == Cardinality({i \in 1..Len(samples) : samples[i].metric_name = "drift_score"})

\* EnhancedWorkflow.process, lines 66-137, with a model available and no
\* active experiment: detect_drift (lines 75-84), predict (line 87),
\* record_prediction (lines 94-102), return (line 123); on an exception
\* record_prediction(success=False) and raise (lines 125-137)
process(drift_score, predicted, latency_ms, fault) ==
    /\ RequestsHeld < MaxRequests
    /\ LET drifted == samples \o <<Sample("drift_score", drift_score)>>
           raised == predicted = "raise" \/ RecordRaises(fault)
       IN  /\ samples' =
                 IF predicted = "raise"
                 THEN record_prediction(drifted, latency_ms, FALSE, fault)
                 ELSE record_prediction(drifted, latency_ms, predicted = "success", fault)
           /\ request' = [predicted |-> predicted, fault |-> fault,
                          outcome |-> IF raised THEN "raised" ELSE "returned"]
    /\ last_op' = "process"
    /\ UNCHANGED <<active_alerts, prev_alerts>>
    /\ UNCHANGED notMonitor

MonitorNext ==
    \/ check_alerts
    \/ TimePasses
    \/ \E drift_score \in DriftScores, predicted \in Predicted, latency_ms \in Latencies,
          fault \in BOOLEAN :
             process(drift_score, predicted, latency_ms, fault)

(***************************************************************************)
(* Part 6: MetricsCollector (config/monitoring.py).  The record_* methods   *)
(* hold no lock; the threads that call them are switched between the steps *)
(* of a call that run Python bytecode.                                      *)
(***************************************************************************)
\* MetricsCollector(max_points): the maxlen of every deque
MaxPoints == 2
\* number of record_* calls that are made
MaxRecords == 3

max_points == MaxPoints

\* the threads that call the record_* methods
Writers == {"writer_1", "writer_2"}

\* _make_key(name, labels) with labels None: the key is the name
CounterKeys == {"http_requests_total", "ml_inferences_total"}
HistogramKeys == {"http_request_duration_ms", "ml_inference_duration_ms"}

\* the value arguments of the calls
Increments == {1, 2}
Durations == {10, 20}

NoDeque == 0

Idle == [pc |-> "idle", key |-> "none", value |-> 0, loaded |-> 0, deque |-> NoDeque]

MetricsInit ==
    /\ counters = EmptyDict
    /\ metrics = EmptyDict
    /\ deques = <<>>
    /\ writer = [w \in Writers |-> Idle]
    /\ recorded = [calls |-> 0,
                   counted |-> [key \in CounterKeys |-> 0],
                   appended |-> [key \in HistogramKeys |-> <<>>]]

\* record_counter, lines 62-63, first half of `self.counters[key] += value`:
\* the subscript is read (defaultdict(int) stores 0 under a missing key)
record_counter(w, key, value) ==
    /\ writer[w].pc = "idle"
    /\ recorded.calls < MaxRecords
    /\ counters' = IF key \in DOMAIN counters THEN counters ELSE Put(counters, key, 0)
    /\ writer' = [writer EXCEPT ![w] =
                     [pc |-> "counter_loaded", key |-> key, value |-> value,
                      loaded |-> IF key \in DOMAIN counters THEN counters[key] ELSE 0,
                      deque |-> NoDeque]]
    /\ recorded' = [recorded EXCEPT !.calls = @ + 1]
    /\ UNCHANGED <<metrics, deques>>
    /\ UNCHANGED notMetrics

\* record_counter, line 63, second half: the sum is stored under the key
CounterStored(w) ==
    /\ writer[w].pc = "counter_loaded"
    /\ counters' = Put(counters, writer[w].key, writer[w].loaded + writer[w].value)
    /\ recorded' = [recorded EXCEPT !.counted[writer[w].key] = @ + writer[w].value]
    /\ writer' = [writer EXCEPT ![w] = Idle]
    /\ UNCHANGED <<metrics, deques>>
    /\ UNCHANGED notMetrics

\* record_histogram, lines 72-73: self.metrics[key] is looked up; under a
\* missing key defaultdict calls the factory of line 56, a Python lambda
\* that makes a new deque(maxlen=max_points)
record_histogram(w, key, value) ==
    /\ writer[w].pc = "idle"
    /\ recorded.calls < MaxRecords
    /\ \/ /\ key \in DOMAIN metrics
          /\ writer' = [writer EXCEPT ![w] =
                           [pc |-> "deque_found", key |-> key, value |-> value,
                            loaded |-> 0, deque |-> metrics[key]]]
          /\ UNCHANGED deques
       \/ /\ key \notin DOMAIN metrics
          /\ deques' = Append(deques, <<>>)
          /\ writer' = [writer EXCEPT ![w] =
                           [pc |-> "deque_made", key |-> key, value |-> value,
                            loaded |-> 0, deque |-> Len(deques) + 1]]
    /\ recorded' = [recorded EXCEPT !.calls = @ + 1]
    /\ UNCHANGED <<counters, metrics>>
    /\ UNCHANGED notMetrics

\* defaultdict.__missing__: the deque the factory returned is stored under
\* the key, whatever is stored there by now
DequeStored(w) ==
    /\ writer[w].pc = "deque_made"
    /\ metrics' = Put(metrics, writer[w].key, writer[w].deque)
    /\ writer' = [writer EXCEPT ![w].pc = "deque_found"]
    /\ UNCHANGED <<counters, deques, recorded>>
    /\ UNCHANGED notMetrics

\* mutant of DequeAppend: a deque without maxlen
DequeAppendUnbounded(d, point) == Append(d, point)

\* deque(maxlen=max_points).append(point): a full deque drops its oldest end
DequeAppend(d, point) ==
    IF Len(d) >= max_points THEN Tail(d) \o <<point>> ELSE Append(d, point)

\* record_histogram, lines 73-77: the MetricPoint is appended to the deque
\* the lookup gave (timestamp and labels are not modelled)
PointAppended(w) ==
    /\ writer[w].pc = "deque_found"
    /\ deques' = [deques EXCEPT ![writer[w].deque] = DequeAppend(@, writer[w].value)]
    /\ recorded' = [recorded EXCEPT !.appended[writer[w].key] = Append(@, writer[w].value)]
    /\ writer' = [writer EXCEPT ![w] = Idle]
    /\ UNCHANGED <<counters, metrics>>
    /\ UNCHANGED notMetrics

\* get_counter, lines 81-82
get_counter(key) == IF key \in DOMAIN counters THEN counters[key] ELSE 0

\* self.metrics.get(key, deque()) of get_histogram_stats, lines 91-92
Points(key) == IF key \in DOMAIN metrics THEN deques[metrics[key]] ELSE <<>>

MetricsNext ==
    \/ \E w \in Writers, key \in CounterKeys, value \in Increments :
          record_counter(w, key, value)
    \/ \E w \in Writers : CounterStored(w)
    \/ \E w \in Writers, key \in HistogramKeys, value \in Durations :
          record_histogram(w, key, value)
    \/ \E w \in Writers : DequeStored(w)
    \/ \E w \in Writers : PointAppended(w)

(***************************************************************************)
(* Part 7: the pipeline create_standard_retraining_pipeline builds, with   *)
(* the task functions of PipelineTasks.  Numbers that the code holds as    *)
(* fractions are in per cent.                                              *)
(***************************************************************************)
CanonicalIds ==
    {"collect_training_data", "validate_data_quality", "train_candidate_model",
     "validate_candidate_model", "register_model_version", "run_ab_test",
     "promote_to_production"}

\* TaskConfig.retry_count when add_task is given none (line 51)
DefaultRetryCount == 3

\* the TaskConfigs of lines 515-557
CanonicalDependencies(t) ==
    CASE t = "collect_training_data" -> {}
      [] t = "validate_data_quality" -> {"collect_training_data"}
      [] t = "train_candidate_model" -> {"validate_data_quality"}
      [] t = "validate_candidate_model" -> {"train_candidate_model"}
      [] t = "register_model_version" -> {"validate_candidate_model"}
      [] t = "run_ab_test" -> {"register_model_version"}
      [] t = "promote_to_production" -> {"run_ab_test"}

CanonicalTasks ==
    [t \in CanonicalIds |->
        [dependencies |-> CanonicalDependencies(t),
         retry_count |-> DefaultRetryCount,
         on_failure |-> IF t = "promote_to_production" THEN "continue" ELSE "fail"]]

\* what np.random.uniform draws in collect_training_data (0.85..0.98),
\* train_candidate_model (0.88..0.96) and run_ab_test (0.85..0.93)
DataQualities == {85, 98}
Accuracies == {88, 96}
CurrentAccuracies == {85, 93}

\* dict.get(key, default)
Get(d, key, default) == IF key \in DOMAIN d THEN d[key] ELSE default

\* what a task function that raises ValueError leaves
ValueError == [exception |-> "ValueError"]
Raises(output) == "exception" \in DOMAIN output

\* PipelineTasks.collect_training_data, lines 364-383
collect_training_data(state, data_quality) == [data_quality |-> data_quality]

\* PipelineTasks.validate_data_quality, lines 386-397
validate_data_quality(state) ==
    LET data_info == Get(state, "collect_training_data", EmptyDict)
        data_quality == Get(data_info, "data_quality", 0)
    IN  IF data_quality < 90 THEN ValueError
        ELSE [validation_passed |-> TRUE, quality_score |-> data_quality]

\* PipelineTasks.train_candidate_model, lines 400-421
train_candidate_model(state, accuracy) ==
    [model_version |-> "v_trained", accuracy |-> accuracy, latency_ms |-> 60]

\* PipelineTasks.validate_candidate_model, lines 424-439
validate_candidate_model(state) ==
    LET model_info == Get(state, "train_candidate_model", EmptyDict)
        accuracy == Get(model_info, "accuracy", 0)
        latency_ms == Get(model_info, "latency_ms", 1000)
    IN  IF accuracy < 90 \/ latency_ms > 100 THEN ValueError
        ELSE [validation_passed |-> TRUE]

\* PipelineTasks.register_model_version, lines 442-456
register_model_version(state) ==
    LET model_info == Get(state, "train_candidate_model", EmptyDict)
        version == Get(model_info, "model_version", "v1")
    IN  [registered_version |-> version, stage |-> "staging"]

\* PipelineTasks.run_ab_test, lines 459-480
run_ab_test(state, current_accuracy) ==
    LET model_info == Get(state, "train_candidate_model", EmptyDict)
        candidate_accuracy == Get(model_info, "accuracy", 90)
        improvement == candidate_accuracy - current_accuracy
    IN  [candidate_better |-> improvement > 0,
         improvement |-> improvement,
         statistical_significance |-> (improvement > 2 \/ improvement < 0 - 2)]

\* PipelineTasks.promote_to_production, lines 483-500
promote_to_production(state) ==
    LET ab_test_result == Get(state, "run_ab_test", EmptyDict)
        model_info == Get(state, "register_model_version", EmptyDict)
    IN  IF ~Get(ab_test_result, "candidate_better", FALSE)
        THEN [promoted |-> FALSE, reason |-> "candidate_not_better"]
        ELSE [promoted |-> TRUE,
              production_version |-> Get(model_info, "registered_version", "unknown")]

\* task_config.function(self.pipeline_state), lines 274-277
CallTask(t, state, data_quality, accuracy, current_accuracy) ==
    CASE t = "collect_training_data" -> collect_training_data(state, data_quality)
      [] t = "validate_data_quality" -> validate_data_quality(state)
      [] t = "train_candidate_model" -> train_candidate_model(state, accuracy)
      [] t = "validate_candidate_model" -> validate_candidate_model(state)
      [] t = "register_model_version" -> register_model_version(state)
      [] t = "run_ab_test" -> run_ab_test(state, current_accuracy)
      [] t = "promote_to_production" -> promote_to_production(state)

\* _execute_task for a task of the canonical pipeline, lines 264-333: the
\* functions that raise read nothing but the state they are given, so they
\* raise on every one of the retry_count + 1 attempts; no function nears its
\* timeout_seconds
ExecutedTask(t, state, data_quality, accuracy, current_accuracy) ==
    LET output == CallTask(t, state, data_quality, accuracy, current_accuracy)
    IN  IF Raises(output)
        THEN TaskResult("failed", EmptyDict, output.exception)
        ELSE TaskResult("success", output, "none")

\* _execute_pipeline, lines 194-221, for a batch of the canonical plan (every
\* one holds a single task): the coroutine of the task runs to its end and
\* the loop goes to the next batch
CanonicalBatch(p, data_quality, accuracy, current_accuracy) ==
    /\ pc[p] = "batch"
    /\ \E t \in CurrentBatch :
          /\ CurrentBatch = {t}
          /\ task_results' = Put(task_results, t,
                 ExecutedTask(t, pipeline_state, data_quality, accuracy, current_accuracy))
          /\ settled' = settled \cup {t}
    /\ \/ /\ batch < Len(execution_plan)
          /\ batch' = batch + 1
          /\ UNCHANGED pc
       \/ /\ batch = Len(execution_plan)
          /\ pc' = [pc EXCEPT ![p] = "complete"]
          /\ UNCHANGED batch
    /\ UNCHANGED <<tasks, notifications, is_running, pipeline_state,
                   execution_plan, pipeline_success, tpc, attempt, execs, delays,
                   seen, lastOutcome, runs, accepted, dropped, notified>>
    /\ UNCHANGED notPipeline

CanonicalNext ==
    \/ \E p \in Callers : TriggerAccepted(p)
    \/ \E p \in Callers : TriggerDropped(p)
    \/ \E p \in Callers : ExecutePipelineStart(p)
    \/ \E p \in Callers, data_quality \in DataQualities, accuracy \in Accuracies,
          current_accuracy \in CurrentAccuracies :
             CanonicalBatch(p, data_quality, accuracy, current_accuracy)
    \/ \E p \in Callers : PipelineCompletes(p)
    \/ \E p \in Callers : TriggerFinally(p)

(***************************************************************************)
(* Part 8: the scheduled trigger.  _setup_scheduled_triggers registers     *)
(* self._trigger_pipeline as the job of a `schedule` entry; run_scheduler  *)
(* runs the due jobs in a thread of its own.                               *)
(***************************************************************************)
\* number of times the scheduled job comes due
MaxScheduled == 2

SchedulerInit == never_awaited = 0

\* run_scheduler, lines 355-357: schedule.run_pending() calls the due job,
\* self._trigger_pipeline(TriggerCondition.SCHEDULED) (lines 107-116).  The
\* job is an `async def`: the call makes a coroutine object and returns it,
\* `schedule` does not await it, and no line of its body is executed.
run_scheduler ==
    /\ never_awaited < MaxScheduled
    /\ never_awaited' = never_awaited + 1
    /\ UNCHANGED notScheduler

(***************************************************************************)
(* Part 9: the task functions of one batch.  _execute_pipeline starts the  *)
(* _execute_task coroutine of every task of a batch at once; each one runs *)
(* the task function under asyncio.wait_for, a coroutine function as a     *)
(* coroutine, any other function in a worker thread (asyncio.to_thread).   *)
(***************************************************************************)
\* the tasks of the batch
BatchIds == {"collect_training_data", "validate_data_quality"}

\* PipelineConfig.max_concurrent_tasks: 1, the value of
\* create_standard_retraining_pipeline (line 509), the default (line 62)
ConcurrencyLimits == {1, 2, 4}

\* a batch none of whose coroutines has run yet
NewBatch(limit, kinds, retries) ==
    [max_concurrent_tasks |-> limit,
     is_coroutine |-> kinds,
     retry_count |-> retries,
     epc |-> [t \in BatchIds |-> "created"],
     eattempt |-> [t \in BatchIds |-> 0],
     executing |-> [t \in BatchIds |-> {}]]

ExecInit ==
    batch_run = NewBatch(2, [t \in BatchIds |-> TRUE], [t \in BatchIds |-> 0])

\* _execute_pipeline, lines 194-202, and _execute_task, lines 269-284: the
\* coroutine of t is run by gather, whatever the other coroutines of the
\* batch do; the loop body calls the function of the task, as a coroutine or
\* in a new worker thread, and awaits it under wait_for
AttemptStarts(t) ==
    /\ epc[t] \in {"created", "retrying"}
    /\ batch_run' = [batch_run EXCEPT !.epc[t] = "awaiting",
                                      !.executing[t] = @ \cup {eattempt[t]}]
    /\ UNCHANGED notExec

\* _execute_task, lines 286-297: the function returned its output
FunctionReturns(t) ==
    /\ epc[t] = "awaiting"
    /\ batch_run' = [batch_run EXCEPT !.epc[t] = "returned",
                                      !.executing[t] = @ \ {eattempt[t]}]
    /\ UNCHANGED notExec

\* what the except branches do after an attempt ended, lines 303-305 and
\* 320-322: backoff and next attempt, or the Failed result
AfterFailedAttempt(t) ==
    IF eattempt[t] < retry_count[t] THEN "sleeping" ELSE "returned"

\* _execute_task, lines 316-331: the function raised
FunctionRaises(t) ==
    /\ epc[t] = "awaiting"
    /\ batch_run' = [batch_run EXCEPT !.epc[t] = AfterFailedAttempt(t),
                                      !.executing[t] = @ \ {eattempt[t]}]
    /\ UNCHANGED notExec

\* asyncio.wait_for at its timeout, lines 275-284 and 299-314: a coroutine
\* is cancelled and has ended when wait_for raises TimeoutError; of a
\* function in a worker thread only the future that awaits the thread is
\* cancelled, the thread runs on
WaitForTimesOut(t) ==
    /\ epc[t] = "awaiting"
    /\ batch_run' = [batch_run EXCEPT
                        !.epc[t] = AfterFailedAttempt(t),
                        !.executing[t] = IF is_coroutine[t] THEN @ \ {eattempt[t]} ELSE @]
    /\ UNCHANGED notExec

\* _execute_task, lines 304-305 and 321-322: asyncio.sleep(2 ** attempt)
\* is over, `continue` takes the next value of the loop variable
BackoffEnds(t) ==
    /\ epc[t] = "sleeping"
    /\ batch_run' = [batch_run EXCEPT !.epc[t] = "retrying", !.eattempt[t] = @ + 1]
    /\ UNCHANGED notExec

\* a worker thread that nothing awaits any more comes to the end of the
\* function
AbandonedThreadEnds(t, a) ==
    /\ a \in executing[t]
    /\ ~(epc[t] = "awaiting" /\ a = eattempt[t])
    /\ batch_run' = [batch_run EXCEPT !.executing[t] = @ \ {a}]
    /\ UNCHANGED notExec

ExecNext ==
    \/ \E t \in BatchIds : AttemptStarts(t)
    \/ \E t \in BatchIds : FunctionReturns(t)
    \/ \E t \in BatchIds : FunctionRaises(t)
    \/ \E t \in BatchIds : WaitForTimesOut(t)
    \/ \E t \in BatchIds : BackoffEnds(t)
    \/ \E t \in BatchIds, a \in 0..MaxRetry : AbandonedThreadEnds(t, a)

(***************************************************************************)
(* Part 10: EnhancedWorkflow.process (workflows/enhanced_base.py) with the *)
(* A/B branch: _get_model_for_request, predict, record_prediction,         *)
(* _get_variant_name and record_result.  The framework and the monitor are *)
(* called, not modelled: get_variant and record_result return or raise.    *)
(***************************************************************************)
\* number of requests that are processed
MaxProcessed == 2

\* self.active_experiment of a workflow that has none (line 44)
NoActiveExperiment == "None"

\* the variants of the experiment of test_ab_testing (lines 139-160) and the
\* model version each one is bound to
DeclaredVariants == <<Variant("control", 50), Variant("treatment", 50)>>
ModelVersionOf(name) == IF name = "control" THEN "1" ELSE "2"

\* the version of the Production model, which _get_model_for_request falls
\* back to (lines 289-298)
ProductionVersion == "1"

\* a workflow that has processed no request
NewWorkflow(experiment) ==
    [active_experiment |-> experiment, calls |-> <<>>, exp_results |-> <<>>,
     reports |-> <<>>]

WorkflowInit == workflow = NewWorkflow(NoActiveExperiment)

\* _get_variant_name, lines 371-375
_get_variant_name(version) == "v" \o version

\* _get_model_for_request, lines 269-306: what it learns from get_variant and
\* the version it returns; allocated is the variant get_variant returned, or
\* "raised"
_get_model_for_request(allocated) ==
    IF active_experiment # NoActiveExperiment /\ allocated # "raised"
    THEN [assigned |-> allocated, version |-> ModelVersionOf(allocated)]
    ELSE [assigned |-> "none", version |-> ProductionVersion]

\* what get_variant may return for the request: the sticky variant of a
\* request_id, any variant for a request without one, or an exception
Allocations(request_id) ==
    IF active_experiment = NoActiveExperiment THEN {"none"}
    ELSE IF request_id = NoIdentifier
    THEN VariantNames(DeclaredVariants) \cup {"raised"}
    ELSE {VariantAt(DeclaredVariants, Bucket(request_id)), "raised"}

\* EnhancedWorkflow.process, lines 66-137, for one request: predicted is what
\* predict did, stored is what the awaited record_result did
ProcessRequest(request_id, allocated, predicted, stored) ==
    /\ Len(calls) < MaxProcessed
    /\ allocated \in Allocations(request_id)
    /\ LET call == Len(calls) + 1
           selected == _get_model_for_request(allocated)
           success == predicted = "success"
           in_experiment == active_experiment # NoActiveExperiment
           raised == predicted = "raise" \/ (in_experiment /\ stored = "raised")
           Report(flag) == [call |-> call, success |-> flag]
       IN  workflow' = [workflow EXCEPT
              !.reports =
                 IF predicted = "raise"
                 THEN Append(reports, Report(FALSE))
                 ELSE IF in_experiment /\ stored = "raised"
                 THEN reports \o <<Report(success), Report(FALSE)>>
                 ELSE Append(reports, Report(success)),
              !.exp_results =
                 IF predicted # "raise" /\ in_experiment /\ stored = "recorded"
                 THEN Append(exp_results,
                             [call |-> call,
                              variant_name |-> _get_variant_name(selected.version),
                              success |-> success])
                 ELSE exp_results,
              !.calls = Append(calls,
                 [request_id |-> request_id, assigned |-> selected.assigned,
                  version |-> selected.version, predicted |-> predicted,
                  outcome |-> IF raised THEN "raised" ELSE "returned"])]
    /\ UNCHANGED notWorkflow

WorkflowNext ==
    \/ start_ab_test
    \/ \E request_id \in Identifiers \cup {NoIdentifier},
          allocated \in VariantNames(DeclaredVariants) \cup {"raised", "none"},
          predicted \in Predicted, stored \in {"recorded", "raised"} :
             ProcessRequest(request_id, allocated, predicted, stored)

(***************************************************************************)
(* Part 11: EnhancedEventClassificationWorkflow.predict                    *)
(* (workflows/event_classification_enhanced.py).  The predict calls of the *)
(* requests in flight are coroutines of one event loop: each runs until    *)
(* its next await and the loop then runs any other.                        *)
(***************************************************************************)
\* the classifier __init__ installs (line 50)
InstalledClassifier == "EventClassifier()"

\* the models _get_model_for_request gives process for a request: a version
\* of the registry, or the current model of the workflow
SelectableModels == {"registry_version_1", "registry_version_2", InstalledClassifier}

NoClassifier == "none"

SwapInit ==
    predicts = [event_classifier |-> InstalledClassifier,
                ppc |-> [r \in Identifiers |-> "idle"],
                model |-> [r \in Identifiers |-> NoClassifier],
                original_classifier |-> [r \in Identifiers |-> NoClassifier],
                classified_by |-> [r \in Identifiers |-> NoClassifier]]

\* predict, lines 169-193: the model of the request replaces
\* self.event_classifier, the classifier found there is kept in the local
\* original_classifier, and the coroutine awaits self.workflow.ainvoke,
\* whose first node awaits the LLM (line 265)
PredictStarts(r, m) ==
    /\ ppc[r] \in {"idle", "returned", "raised"}
    /\ predicts' = [predicts EXCEPT !.model[r] = m,
                                    !.original_classifier[r] = event_classifier,
                                    !.event_classifier = m,
                                    !.classified_by[r] = NoClassifier,
                                    !.ppc[r] = "awaiting"]
    /\ UNCHANGED notSwap

\* classify_event_node, lines 276-298: the node classifies with whatever
\* self.event_classifier is when it runs
classify_event_node(r) ==
    /\ ppc[r] = "awaiting"
    /\ predicts' = [predicts EXCEPT !.classified_by[r] = event_classifier,
                                    !.ppc[r] = "classified"]
    /\ UNCHANGED notSwap

\* predict, lines 195-208: the result is returned; the finally block puts
\* original_classifier back
PredictReturns(r) ==
    /\ ppc[r] = "classified"
    /\ predicts' = [predicts EXCEPT !.event_classifier = original_classifier[r],
                                    !.ppc[r] = "returned"]
    /\ UNCHANGED notSwap

\* predict, lines 193 and 206-208: a node of the workflow raises; the finally
\* block puts original_classifier back
PredictRaises(r) ==
    /\ ppc[r] \in {"awaiting", "classified"}
    /\ predicts' = [predicts EXCEPT !.event_classifier = original_classifier[r],
                                    !.ppc[r] = "raised"]
    /\ UNCHANGED notSwap

SwapNext ==
    \/ \E r \in Identifiers, m \in SelectableModels : PredictStarts(r, m)
    \/ \E r \in Identifiers : classify_event_node(r)
    \/ \E r \in Identifiers : PredictReturns(r)
    \/ \E r \in Identifiers : PredictRaises(r)

(***************************************************************************)
(* Part 12: KafkaHandler (ml-server/kafka_handler.py).  One consumer       *)
(* thread takes the messages one at a time through _process_message; the   *)
(* handlers are the coroutine functions main.py registers, and what they   *)
(* return can be serialised.                                               *)
(***************************************************************************)
\* number of messages that are consumed
MaxMessages == 2

\* value.get(field) of a message without the field
Missing == "None"

\* self.message_handlers: types main.py registers a handler for (lines
\* 160-165)
message_handlers == {"classify_event", "optimize_schedule"}

\* the "type" and "requestId" of the messages that arrive
MessageTypes == message_handlers \cup {"transcribe_voice", Missing}
RequestIds == Identifiers \cup {Missing}

\* what the handler of a message does, and what future.get(timeout=10) does
HandlerOutcomes == {"returns", "raises"}
SendOutcomes == {"acknowledged", "KafkaError"}

KafkaInit == kafka = [consumed |-> <<>>, sent |-> <<>>]

\* _send_response, lines 151-173: the response is given to producer.send
\* under the key request_id; a KafkaError of the send is logged
_send_response(request_id, message_type, result, success, outcome) ==
    [key |-> request_id, requestId |-> request_id,
     type |-> message_type \o "_response", success |-> success, data |-> result,
     message |-> Len(consumed) + 1, outcome |-> outcome]

\* mutant of AfterHandlerRaised: the error of a handler is logged only
AfterHandlerRaisedLogged(request_id, message_type, outcome) == <<>>

\* _process_message, lines 137-139
AfterHandlerRaised(request_id, message_type, outcome) ==
    <<_send_response(request_id, message_type, "error", FALSE, outcome)>>

\* _process_message, lines 111-149: the responses it sends for a message
Responses(message_type, request_id, handled, outcome) ==
    IF message_type = Missing THEN <<>>
    ELSE IF request_id = Missing THEN <<>>
    ELSE IF message_type \in message_handlers
    THEN IF handled = "returns"
         THEN <<_send_response(request_id, message_type, "result", TRUE, outcome)>>
         ELSE AfterHandlerRaised(request_id, message_type, outcome)
    ELSE <<_send_response(request_id, message_type, "error", FALSE, outcome)>>

\* _consume_messages, lines 95-99, and _process_message: one message
_process_message(message_type, request_id, handled, outcome) ==
    /\ Len(consumed) < MaxMessages
    /\ kafka' = [consumed |-> Append(consumed,
                    [type |-> message_type, requestId |-> request_id,
                     handled |-> handled]),
                 sent |-> sent \o Responses(message_type, request_id, handled, outcome)]
    /\ UNCHANGED notKafka

KafkaNext ==
    \E message_type \in MessageTypes, request_id \in RequestIds,
       handled \in HandlerOutcomes, outcome \in SendOutcomes :
          _process_message(message_type, request_id, handled, outcome)

(***************************************************************************)
(* Part 13: HealthChecker (config/monitoring.py) over its MetricsCollector: *)
(* record_request and record_ml_inference, called one after the other, and *)
(* the two reports that read the counters.                                  *)
(***************************************************************************)
\* the arguments of the calls
Methods == {"GET", "POST"}
StatusCodes == {200, 500}
InferenceModels == {"event_classifier"}

\* str(status_code), str(success)
StatusStr(status_code) == IF status_code = 200 THEN "200" ELSE "500"
BoolStr(b) == IF b THEN "True" ELSE "False"

HealthInit == health_calls = [http_requests |-> 0, ml_inferences |-> 0]

\* ','.join(f'{k}={v}' for k, v in sorted(labels.items())), line 113, for
\* labels given as <<k, v>> pairs in the order of their keys
RECURSIVE JoinLabels(_)
JoinLabels(labels) ==
    IF Len(labels) = 1 THEN labels[1][1] \o "=" \o labels[1][2]
    ELSE labels[1][1] \o "=" \o labels[1][2] \o "," \o JoinLabels(Tail(labels))

\* MetricsCollector._make_key, lines 109-114; <<>> is labels None
_make_key(name, labels) ==
    IF labels = <<>> THEN name
    ELSE name \o "{" \o JoinLabels(labels) \o "}"

\* record_counter(name, value, labels), lines 60-63, in one thread
CounterAdded(cs, name, value, labels) ==
    LET key == _make_key(name, labels)
    IN  Put(cs, key, (IF key \in DOMAIN cs THEN cs[key] ELSE 0) + value)

\* record_histogram(name, value, labels), lines 70-77, in one thread: the
\* dict of deques and the deque objects after the call
HistogramAdded(name, value, labels) ==
    LET key == _make_key(name, labels)
    IN  IF key \in DOMAIN metrics
        THEN [metrics |-> metrics,
              deques |-> [deques EXCEPT ![metrics[key]] = DequeAppend(@, value)]]
        ELSE [metrics |-> Put(metrics, key, Len(deques) + 1),
              deques |-> Append(deques, <<value>>)]

\* the variables a call on the HealthChecker leaves alone
notHealthMetrics ==
    <<pipeVars, regVars, loopVars, abVars, monVars, schedVars, execVars, wfVars,
      swapVars, kafkaVars, cacheVars, writer, recorded>>

\* HealthChecker.record_request, lines 433-444; duration is in milliseconds
record_request(method, status_code, duration) ==
    /\ http_requests + ml_inferences < MaxRecords
    /\ LET labels == <<<<"method", method>>, <<"status_code", StatusStr(status_code)>>>>
           counted == CounterAdded(counters, "http_requests_total", 1, labels)
           added == HistogramAdded("http_request_duration_ms", duration, labels)
       IN  /\ counters' = IF status_code >= 400
                          THEN CounterAdded(counted, "http_requests_errors_total", 1, labels)
                          ELSE counted
           /\ metrics' = added.metrics
           /\ deques' = added.deques
    /\ health_calls' = [health_calls EXCEPT !.http_requests = @ + 1]
    /\ UNCHANGED notHealthMetrics

\* HealthChecker.record_ml_inference, lines 446-460, with input_tokens 0
record_ml_inference(m, duration, success) ==
    /\ http_requests + ml_inferences < MaxRecords
    /\ LET labels == <<<<"model", m>>, <<"success", BoolStr(success)>>>>
           counted == CounterAdded(counters, "ml_inferences_total", 1, labels)
           added == HistogramAdded("ml_inference_duration_ms", duration, labels)
       IN  /\ counters' = IF ~success
                          THEN CounterAdded(counted, "ml_inference_errors_total", 1, labels)
                          ELSE counted
           /\ metrics' = added.metrics
           /\ deques' = added.deques
    /\ health_calls' = [health_calls EXCEPT !.ml_inferences = @ + 1]
    /\ UNCHANGED notHealthMetrics

\* HealthChecker._get_metrics_summary, lines 472-490: the counters it reads
_get_metrics_summary ==
    [requests |-> [total |-> get_counter(_make_key("http_requests_total", <<>>)),
                   errors |-> get_counter(_make_key("http_requests_errors_total", <<>>))],
     ml_inferences |-> [total |-> get_counter(_make_key("ml_inferences_total", <<>>)),
                        errors |-> get_counter(_make_key("ml_inference_errors_total", <<>>))]]

\* HealthChecker.get_prometheus_metrics, lines 515-534: the samples of the
\* two counters, as <<metric name, value>>
get_prometheus_metrics ==
    << <<"geulpi_ml_server_http_requests_total",
         get_counter(_make_key("http_requests_total", <<>>))>>,
       <<"geulpi_ml_server_ml_inferences_total",
         get_counter(_make_key("ml_inferences_total", <<>>))>> >>

HealthNext ==
    \/ \E method \in Methods, status_code \in StatusCodes, duration \in Durations :
          record_request(method, status_code, duration)
    \/ \E m \in InferenceModels, duration \in Durations, success \in BOOLEAN :
          record_ml_inference(m, duration, success)

(***************************************************************************)
(* Part 14: ModelCache (ml-server/optimization/inference_optimizer.py).    *)
(* get, set and clear run under self.lock, one at a time.                  *)
(***************************************************************************)
\* the clock runs from 0 to MaxTime
MaxTime == 3
\* number of get calls counted before a clear
MaxLookups == 2

\* ModelCache(max_size, ttl_seconds)
CacheSizes == {1, 2}
ttl_seconds == 2

CacheKeys == {"features_a", "features_b", "features_c"}
CacheValues == {"result_1", "result_2"}

NoCacheCall == [op |-> "none", key |-> "none", held |-> {}, expired |-> FALSE,
                result |-> "None"]

\* ModelCache(max_size, ttl_seconds), lines 57-64
NewCache(size) ==
    [max_size |-> size, cache |-> EmptyDict, access_times |-> EmptyDict,
     key_order |-> <<>>, hit_count |-> 0, miss_count |-> 0, now |-> 0,
     cache_call |-> NoCacheCall]

CacheInit == model_cache = NewCache(1)

\* del d[key]
Del(d, key) == [k \in (DOMAIN d) \ {key} |-> d[k]]

\* the order of the keys of a dict after del d[key] and after d[key] = v: a
\* new key goes to the end, a key that is held keeps its place
RECURSIVE Without(_, _)
Without(order, key) ==
    IF order = <<>> THEN <<>>
    ELSE IF Head(order) = key THEN Tail(order)
    ELSE <<Head(order)>> \o Without(Tail(order), key)
With(order, key) ==
    IF \E i \in 1..Len(order) : order[i] = key THEN order ELSE Append(order, key)

\* the TTL test of get, line 70
Fresh(key) == now - access_times[key] < ttl_seconds

\* ModelCache.get, lines 66-81
get(key) ==
    /\ hit_count + miss_count < MaxLookups
    /\ model_cache' =
          IF key \in DOMAIN cache /\ Fresh(key)
          THEN [model_cache EXCEPT
                   !.hit_count = @ + 1,
                   !.access_times = Put(access_times, key, now),
                   !.cache_call = [op |-> "get", key |-> key, held |-> DOMAIN cache,
                                   expired |-> FALSE, result |-> cache[key]]]
          ELSE [model_cache EXCEPT
                   !.miss_count = @ + 1,
                   !.cache = IF key \in DOMAIN cache THEN Del(cache, key) ELSE cache,
                   !.access_times = IF key \in DOMAIN cache THEN Del(access_times, key)
                                    ELSE access_times,
                   !.key_order = IF key \in DOMAIN cache THEN Without(key_order, key)
                                 ELSE key_order,
                   !.cache_call = [op |-> "get", key |-> key, held |-> DOMAIN cache,
                                   expired |-> key \in DOMAIN cache, result |-> "None"]]
    /\ UNCHANGED notCache

\* min(self.access_times.keys(), key=...) of _evict_lru, line 98: the first
\* key, in the order of the dict, with the smallest access time
lru_key ==
    LET i == CHOOSE i \in 1..Len(key_order) :
                 /\ \A j \in 1..Len(key_order) :
                       access_times[key_order[i]] <= access_times[key_order[j]]
                 /\ \A j \in 1..(i - 1) :
                       access_times[key_order[j]] > access_times[key_order[i]]
    IN  key_order[i]

\* ModelCache.set, lines 83-91, with _evict_lru, lines 93-100
set(key, value) ==
    /\ LET call == [op |-> "set", key |-> key, held |-> DOMAIN cache,
                    expired |-> FALSE, result |-> "None"]
       IN  model_cache' =
              IF Cardinality(DOMAIN cache) >= max_size /\ DOMAIN access_times # {}
              THEN [model_cache EXCEPT
                       !.cache = Put(Del(cache, lru_key), key, value),
                       !.access_times = Put(Del(access_times, lru_key), key, now),
                       !.key_order = With(Without(key_order, lru_key), key),
                       !.cache_call = call]
              ELSE [model_cache EXCEPT
                       !.cache = Put(cache, key, value),
                       !.access_times = Put(access_times, key, now),
                       !.key_order = With(key_order, key),
                       !.cache_call = call]
    /\ UNCHANGED notCache

\* ModelCache.clear, lines 109-115
clear ==
    /\ model_cache' = [model_cache EXCEPT
          !.cache = EmptyDict,
          !.access_times = EmptyDict,
          !.key_order = <<>>,
          !.hit_count = 0,
          !.miss_count = 0,
          !.cache_call = [op |-> "clear", key |-> "none", held |-> DOMAIN cache,
                          expired |-> FALSE, result |-> "None"]]
    /\ UNCHANGED notCache

\* a second passes between two calls
ClockTicks ==
    /\ now < MaxTime
    /\ model_cache' = [model_cache EXCEPT !.now = @ + 1]
    /\ UNCHANGED notCache

CacheNext ==
    \/ \E key \in CacheKeys : get(key)
    \/ \E key \in CacheKeys, value \in CacheValues : set(key, value)
    \/ clear
    \/ ClockTicks

(***************************************************************************)
(* Specifications                                                          *)
(***************************************************************************)
vars == <<pipeVars, regVars, loopVars, abVars, monVars, metVars, schedVars, execVars, wfVars, swapVars, kafkaVars, healthVars, cacheVars>>

\* the retraining pipeline
Init ==
    /\ PipelineInit /\ RegistryInit /\ LoopInit /\ ABInit /\ MonitorInit
    /\ MetricsInit /\ SchedulerInit /\ CacheInit /\ HealthInit /\ KafkaInit /\ SwapInit /\ WorkflowInit /\ ExecInit
Next == PipelineNext
Spec == Init /\ [][Next]_vars

\* the registry and its clients
RegistrySpecInit ==
    /\ RegistryInit /\ PipelineInit /\ notifications = FALSE
    /\ LoopInit /\ ABInit /\ MonitorInit /\ MetricsInit /\ SchedulerInit /\ CacheInit /\ HealthInit /\ KafkaInit /\ SwapInit /\ WorkflowInit /\ ExecInit
RegistrySpecNext == RegistryNext
RegistrySpec == RegistrySpecInit /\ [][RegistrySpecNext]_vars

\* the monitor loops and the pipeline they trigger
LoopSpecInit ==
    /\ tasks \in LoopTasks
    /\ notifications = TRUE
    /\ is_running = FALSE
    /\ task_results = EmptyDict
    /\ pipeline_state = EmptyDict
    /\ pc = [p \in Callers |-> "idle"]
    /\ execution_plan = <<>>
    /\ batch = 0
    /\ pipeline_success = TRUE
    /\ tpc = [t \in TaskIds |-> "idle"]
    /\ attempt = [t \in TaskIds |-> 0]
    /\ execs = [t \in TaskIds |-> 0]
    /\ delays = [t \in TaskIds |-> <<>>]
    /\ settled = {}
    /\ seen = [t \in TaskIds |-> {}]
    /\ lastOutcome = [t \in TaskIds |-> "none"]
    /\ runs = 0
    /\ accepted = 0
    /\ dropped = FALSE
    /\ notified = <<>>
    /\ LoopInit
    /\ RegistryInit
    /\ ABInit
    /\ MonitorInit
    /\ MetricsInit
    /\ SchedulerInit /\ CacheInit /\ HealthInit /\ KafkaInit /\ SwapInit /\ WorkflowInit /\ ExecInit

LoopSpecNext ==
    \/ \E d \in Dashboards : DashboardChanges(d)
    \/ \E p \in Callers : MonitorTick(p)
    \/ \E p \in Callers : MonitorSleeps(p)
    \/ \E p \in Callers : ExecutePipelineStart(p)
    \/ \E p \in Callers : DispatchBatch(p)
    \/ \E t \in TaskIds : TaskStart(t)
    \/ \E t \in TaskIds : TaskSucceeds(t)
    \/ \E t \in TaskIds, o \in {"raise", "timeout"} : TaskFails(t, o)
    \/ \E t \in TaskIds : TaskRetries(t)
    \/ \E p \in Callers : BatchGathered(p)
    \/ \E p \in Callers : PipelineCompletes(p)
    \/ \E p \in Callers : TriggerFinally(p)
LoopSpec == LoopSpecInit /\ [][LoopSpecNext]_vars

\* the pipeline of create_standard_retraining_pipeline
CanonicalSpecInit ==
    /\ tasks = CanonicalTasks
    /\ notifications = TRUE
    /\ is_running = FALSE
    /\ task_results = EmptyDict
    /\ pipeline_state = EmptyDict
    /\ pc = [p \in Callers |-> "idle"]
    /\ execution_plan = <<>>
    /\ batch = 0
    /\ pipeline_success = TRUE
    /\ tpc = [t \in TaskIds |-> "idle"]
    /\ attempt = [t \in TaskIds |-> 0]
    /\ execs = [t \in TaskIds |-> 0]
    /\ delays = [t \in TaskIds |-> <<>>]
    /\ settled = {}
    /\ seen = [t \in TaskIds |-> {}]
    /\ lastOutcome = [t \in TaskIds |-> "none"]
    /\ runs = 0
    /\ accepted = 0
    /\ dropped = FALSE
    /\ notified = <<>>
    /\ RegistryInit /\ LoopInit /\ ABInit /\ MonitorInit /\ MetricsInit
    /\ SchedulerInit /\ CacheInit /\ HealthInit /\ KafkaInit /\ SwapInit /\ WorkflowInit /\ ExecInit
CanonicalSpecNext == CanonicalNext
CanonicalSpec == CanonicalSpecInit /\ [][CanonicalSpecNext]_vars

\* a pipeline of three tasks in two batches: train_candidate_model depends on
\* collect_training_data and not on validate_data_quality, which shares the
\* first batch
BarrierTasks ==
    {[t \in TaskIds |->
        [dependencies |-> IF t = "train_candidate_model"
                          THEN {"collect_training_data"} ELSE {},
         retry_count |-> CASE t = "collect_training_data" -> r
                           [] t = "validate_data_quality" -> 1
                           [] t = "train_candidate_model" -> 0,
         on_failure |-> "fail"]] : r \in 0..MaxRetry}

BarrierSpecInit ==
    /\ tasks \in BarrierTasks
    /\ notifications = TRUE
    /\ is_running = FALSE
    /\ task_results = EmptyDict
    /\ pipeline_state = EmptyDict
    /\ pc = [p \in Callers |-> "idle"]
    /\ execution_plan = <<>>
    /\ batch = 0
    /\ pipeline_success = TRUE
    /\ tpc = [t \in TaskIds |-> "idle"]
    /\ attempt = [t \in TaskIds |-> 0]
    /\ execs = [t \in TaskIds |-> 0]
    /\ delays = [t \in TaskIds |-> <<>>]
    /\ settled = {}
    /\ seen = [t \in TaskIds |-> {}]
    /\ lastOutcome = [t \in TaskIds |-> "none"]
    /\ runs = 0
    /\ accepted = 0
    /\ dropped = FALSE
    /\ notified = <<>>
    /\ RegistryInit /\ LoopInit /\ ABInit /\ MonitorInit /\ MetricsInit
    /\ SchedulerInit /\ CacheInit /\ HealthInit /\ KafkaInit /\ SwapInit /\ WorkflowInit /\ ExecInit
BarrierSpecNext ==
    \/ \E p \in Callers : TriggerAccepted(p)
    \/ \E p \in Callers : TriggerDropped(p)
    \/ \E p \in Callers : ExecutePipelineStart(p)
    \/ \E p \in Callers : DispatchBatch(p)
    \/ \E t \in TaskIds : TaskStart(t)
    \/ \E t \in TaskIds : TaskSucceeds(t)
    \/ \E t \in TaskIds, o \in {"raise", "timeout"} : TaskFails(t, o)
    \/ \E t \in TaskIds : TaskRetries(t)
    \/ \E p \in Callers : BatchGathered(p)
    \/ \E p \in Callers : PipelineCompletes(p)
    \/ \E p \in Callers : TriggerFinally(p)
BarrierSpec == BarrierSpecInit /\ [][BarrierSpecNext]_vars

\* the A/B testing framework and its callers
ABSpecInit ==
    /\ ABInit /\ PipelineInit /\ notifications = FALSE
    /\ RegistryInit /\ LoopInit /\ MonitorInit /\ MetricsInit /\ SchedulerInit /\ CacheInit /\ HealthInit /\ KafkaInit /\ SwapInit /\ WorkflowInit /\ ExecInit
ABSpecNext == ABNext
ABSpec == ABSpecInit /\ [][ABSpecNext]_vars

\* one experiment of the framework under the requests of the serving layer
ABServingSpec == ABSpecInit /\ [][ABServingNext]_vars

\* the model monitor under the requests of a workflow
MonitorSpecInit ==
    /\ MonitorInit /\ PipelineInit /\ notifications = FALSE
    /\ RegistryInit /\ LoopInit /\ ABInit /\ MetricsInit /\ SchedulerInit /\ CacheInit /\ HealthInit /\ KafkaInit /\ SwapInit /\ WorkflowInit /\ ExecInit
MonitorSpecNext == MonitorNext
MonitorSpec == MonitorSpecInit /\ [][MonitorSpecNext]_vars

\* the metrics store under the threads that record into it
MetricsSpecInit ==
    /\ MetricsInit /\ PipelineInit /\ notifications = FALSE
    /\ RegistryInit /\ LoopInit /\ ABInit /\ MonitorInit /\ SchedulerInit /\ CacheInit /\ HealthInit /\ KafkaInit /\ SwapInit /\ WorkflowInit /\ ExecInit
MetricsSpecNext == MetricsNext
MetricsSpec == MetricsSpecInit /\ [][MetricsSpecNext]_vars

\* the pipeline under all of its trigger sources: the scheduler thread and
\* the two monitor loops
TriggerSpecInit == LoopSpecInit
TriggerSpecNext ==
    \/ run_scheduler
    \/ \E d \in Dashboards : DashboardChanges(d)
    \/ \E p \in Callers : MonitorTick(p)
    \/ \E p \in Callers : MonitorSleeps(p)
    \/ \E p \in Callers : ExecutePipelineStart(p)
    \/ \E p \in Callers : DispatchBatch(p)
    \/ \E t \in TaskIds : TaskStart(t)
    \/ \E t \in TaskIds : TaskSucceeds(t)
    \/ \E t \in TaskIds, o \in {"raise", "timeout"} : TaskFails(t, o)
    \/ \E t \in TaskIds : TaskRetries(t)
    \/ \E p \in Callers : BatchGathered(p)
    \/ \E p \in Callers : PipelineCompletes(p)
    \/ \E p \in Callers : TriggerFinally(p)
TriggerSpec == TriggerSpecInit /\ [][TriggerSpecNext]_vars

\* the coroutines of one batch, for every kind of task function, retry_count
\* and max_concurrent_tasks
ExecSpecInit ==
    /\ \E limit \in ConcurrencyLimits, kinds \in [BatchIds -> BOOLEAN],
          retries \in [BatchIds -> 0..MaxRetry] :
             batch_run = NewBatch(limit, kinds, retries)
    /\ PipelineInit /\ notifications = FALSE
    /\ RegistryInit /\ LoopInit /\ ABInit /\ MonitorInit /\ MetricsInit
    /\ SchedulerInit /\ CacheInit /\ HealthInit /\ KafkaInit /\ SwapInit /\ WorkflowInit
ExecSpecNext == ExecNext
ExecSpec == ExecSpecInit /\ [][ExecSpecNext]_vars

\* a workflow and the requests it processes.  self.active_experiment is None
\* after construction; in the other initial state the owner of the workflow
\* has assigned it the id of a Running experiment with the variants of
\* DeclaredVariants, which is how lines 109-121 and 272-287 come to run.
WorkflowSpecInit ==
    /\ \E experiment \in {NoActiveExperiment, ServedExperiment} :
          workflow = NewWorkflow(experiment)
    /\ PipelineInit /\ notifications = FALSE
    /\ RegistryInit /\ LoopInit /\ ABInit /\ MonitorInit /\ MetricsInit
    /\ SchedulerInit /\ CacheInit /\ HealthInit /\ KafkaInit /\ SwapInit /\ ExecInit
WorkflowSpecNext == WorkflowNext
WorkflowSpec == WorkflowSpecInit /\ [][WorkflowSpecNext]_vars

\* the predict calls of concurrent requests
SwapSpecInit ==
    /\ SwapInit
    /\ PipelineInit /\ notifications = FALSE
    /\ RegistryInit /\ LoopInit /\ ABInit /\ MonitorInit /\ MetricsInit
    /\ SchedulerInit /\ CacheInit /\ HealthInit /\ KafkaInit /\ ExecInit /\ WorkflowInit
SwapSpecNext == SwapNext
SwapSpec == SwapSpecInit /\ [][SwapSpecNext]_vars

\* the consumer thread of the Kafka handler
KafkaSpecInit ==
    /\ KafkaInit
    /\ PipelineInit /\ notifications = FALSE
    /\ RegistryInit /\ LoopInit /\ ABInit /\ MonitorInit /\ MetricsInit
    /\ SchedulerInit /\ CacheInit /\ HealthInit /\ ExecInit /\ WorkflowInit /\ SwapInit
KafkaSpecNext == KafkaNext
KafkaSpec == KafkaSpecInit /\ [][KafkaSpecNext]_vars

\* the health checker and the calls that record into it
HealthSpecInit ==
    /\ HealthInit
    /\ PipelineInit /\ notifications = FALSE
    /\ RegistryInit /\ LoopInit /\ ABInit /\ MonitorInit /\ MetricsInit
    /\ SchedulerInit /\ CacheInit /\ ExecInit /\ WorkflowInit /\ SwapInit /\ KafkaInit
HealthSpecNext == HealthNext
HealthSpec == HealthSpecInit /\ [][HealthSpecNext]_vars

\* a ModelCache of every size and the calls made on it
CacheSpecInit ==
    /\ \E size \in CacheSizes : model_cache = NewCache(size)
    /\ PipelineInit /\ notifications = FALSE
    /\ RegistryInit /\ LoopInit /\ ABInit /\ MonitorInit /\ MetricsInit
    /\ SchedulerInit /\ ExecInit /\ WorkflowInit /\ SwapInit /\ KafkaInit
    /\ HealthInit
CacheSpecNext == CacheNext
CacheSpec == CacheSpecInit /\ [][CacheSpecNext]_vars

(***************************************************************************)
(* Properties of the retraining pipeline                                   *)
(***************************************************************************)
\* a run is in progress for caller p
InRun(p) == pc[p] # "idle"

\* the run that was started last has ended (its notification step is behind
\* it) and no later run has begun
LastRunEnded == runs > 0 /\ \A p \in Callers : pc[p] \in {"idle", "triggered", "finally"}

\* the registered tasks t depends on, directly or through other tasks
RECURSIVE Closure(_, _)
Closure(S, n) ==
    IF n = 0 THEN S
    ELSE Closure(S \cup UNION {Dependencies(d) : d \in S \cap DOMAIN tasks}, n - 1)
DependsOn(t) == Closure(Dependencies(t), Cardinality(TaskIds))

\* the registered tasks cannot be ordered: a cycle, or a dependency that was
\* never registered
Unorderable ==
    \E t \in DOMAIN tasks : t \in DependsOn(t) \/ ~(DependsOn(t) \subseteq DOMAIN tasks)

\* the batch of the plan that holds t (0: none)
BatchOf(t) ==
    IF \E i \in 1..Len(execution_plan) : t \in execution_plan[i]
    THEN CHOOSE i \in 1..Len(execution_plan) : t \in execution_plan[i]
    ELSE 0

\* t ended this run Failed after calls of its function
FailedInRun(t) ==
    /\ t \in settled
    /\ task_results[t].status = "failed"
    /\ lastOutcome[t] \in {"raise", "timeout"}

\* C1: at most one caller is inside _trigger_pipeline's run at any time, every
\* execution of the pipeline belongs to a trigger that found the pipeline idle,
\* and a trigger that is dropped changes nothing: it starts no task and leaves
\* no run behind to be started later.
C1_SingleRun ==
    /\ [](/\ Cardinality({p \in Callers : InRun(p)}) <= 1
          /\ (is_running <=> \E p \in Callers : InRun(p))
          /\ runs + Cardinality({p \in Callers : pc[p] = "triggered"}) = accepted)
    /\ [][(~dropped /\ dropped') =>
              UNCHANGED <<pc, runs, accepted, is_running, tpc, execs, task_results>>]_vars

\* C1 witness: a trigger was dropped during a run, that run has ended, and the
\* only run that ever started is the accepted one.
C1_Witness ==
    /\ dropped
    /\ accepted = 1
    /\ runs = 1
    /\ \A p \in Callers : pc[p] = "idle"

\* C3: whenever a task's function has been called in a run, every dependency
\* the task declares has a terminal TaskResult stored in that same run.
C3_DependenciesSettledFirst ==
    \A t \in DOMAIN tasks :
        execs[t] > 0 =>
            \A d \in Dependencies(t) :
                /\ d \in settled
                /\ task_results[d].status \in {"success", "failed"}

\* C3 witness: a task with a declared dependency is running.
C3_Witness ==
    \E t \in DOMAIN tasks : tpc[t] = "running" /\ Dependencies(t) # {}

\* C4 (as claimed): when the registered tasks hold a cycle or an unregistered
\* dependency, the plan fails and the run calls no task function at all, not
\* even those of the tasks that can be ordered.
C4_UnorderableRunsNothing ==
    Unorderable => \A t \in TaskIds : execs[t] = 0

\* C5: a task that ends a run Failed after calls of its function was called
\* exactly retry_count + 1 times, slept retry_count times with strictly
\* increasing delays, and is not terminal while an attempt is still to come.
C5_RetriesThenFailed ==
    \A t \in DOMAIN tasks :
        /\ FailedInRun(t) =>
              /\ execs[t] = tasks[t].retry_count + 1
              /\ Len(delays[t]) = tasks[t].retry_count
              /\ \A i \in 1..(Len(delays[t]) - 1) : delays[t][i] < delays[t][i + 1]
        /\ tpc[t] \in {"running", "sleeping"} => t \notin settled
        /\ execs[t] <= MaxAttempts(t)

\* C5 witness: a task with retry_count = 2 is Failed after 3 calls and the
\* delays 1, 2.
C5_Witness ==
    \E t \in DOMAIN tasks :
        /\ tasks[t].retry_count = 2
        /\ FailedInRun(t)
        /\ execs[t] = 3
        /\ delays[t] = <<1, 2>>

\* C6 (as claimed): when a task with on_failure = "continue" has ended Failed,
\* the function of a task that depends on it is not called.
C6_DependantsSkipped ==
    \A f \in DOMAIN tasks : \A t \in DOMAIN tasks :
        (FailedInRun(f) /\ tasks[f].on_failure = "continue" /\ f \in DependsOn(t))
            => execs[t] = 0

\* C7 (as claimed): when a task with on_failure = "fail" has ended Failed, the
\* function of a task of a later batch is not called.
C7_FailAborts ==
    \A f \in DOMAIN tasks : \A t \in DOMAIN tasks :
        (FailedInRun(f) /\ tasks[f].on_failure = "fail"
            /\ BatchOf(f) > 0 /\ BatchOf(t) > BatchOf(f))
            => execs[t] = 0

\* C8 (as claimed): the output of a task that ended with Success is in the
\* shared run state under its task_id, and a later task that declares it as a
\* dependency finds it there.
C8_OutputInSharedState ==
    \A t \in DOMAIN tasks :
        (t \in settled /\ task_results[t].status = "success") =>
            /\ t \in DOMAIN pipeline_state
            /\ \A u \in DOMAIN tasks : (execs[u] > 0 /\ t \in Dependencies(u)) => t \in seen[u]

\* C9 (as claimed): a run that has ended has emitted a notification.
C9_AlwaysNotified == LastRunEnded => notified # <<>>

\* C9 (amended): with config.notifications set, a run that has ended has
\* emitted exactly one notification, with the run's trigger and with status
\* FAILED exactly when the run was aborted, and a run that has not reached its
\* end has emitted none; with config.notifications unset nothing is emitted.
C9_NotifiedWhenConfigured ==
    /\ (notifications /\ LastRunEnded) =>
          /\ Len(notified) = 1
          /\ notified[1].status = (IF pipeline_success THEN "SUCCESS" ELSE "FAILED")
          /\ notified[1].trigger = pipeline_state.trigger
    /\ (notifications /\ ~LastRunEnded) => notified = <<>>
    /\ ~notifications => notified = <<>>

\* C9 witness: an aborted run has ended and its FAILED notification is there.
C9_Witness ==
    /\ notifications
    /\ LastRunEnded
    /\ ~pipeline_success
    /\ Len(notified) = 1
    /\ notified[1].status = "FAILED"

\* C10: a task whose function raised or timed out on its last attempt ends as
\* a normally returned coroutine with a Failed TaskResult carrying the error;
\* the failure does not reach gather as an exception, so it does not fail the
\* run and the caller's run continues to its normal end.
C10_FailureContained ==
    \A t \in DOMAIN tasks :
        lastOutcome[t] \in {"raise", "timeout"} =>
            /\ tpc[t] = "done"
            /\ t \in settled
            /\ task_results[t].status = "failed"
            /\ task_results[t].error = lastOutcome[t]
            /\ ((\A u \in TaskIds : lastOutcome[u] # "unbound") => pipeline_success)

\* C10 witness: a task's function raised on its last attempt, another timed
\* out, and the caller of the run has returned.
C10_Witness ==
    /\ \E t \in DOMAIN tasks : lastOutcome[t] = "raise"
    /\ \E t \in DOMAIN tasks : lastOutcome[t] = "timeout"
    /\ runs > 0
    /\ \A p \in Callers : pc[p] = "idle"

\* the tasks of the batches of plan before batch k
EarlierBatches(plan, k) == UNION {plan[i] : i \in 1..(k - 1)}

\* C24: when a run is about to dispatch a batch, every batch of the plan
\* _build_execution_plan gave it is exactly the set of registered tasks that
\* are in no earlier batch and have all their dependencies in earlier
\* batches; and when the dependencies are acyclic and all registered, every
\* registered task is in exactly one batch.
C24_LayeredPlan ==
    (\E p \in Callers : pc[p] = "batch") =>
        LET plan == execution_plan
        IN  /\ \A k \in 1..Len(plan) :
                  /\ plan[k] # {}
                  /\ plan[k] = {t \in DOMAIN tasks \ EarlierBatches(plan, k) :
                                   Dependencies(t) \subseteq EarlierBatches(plan, k)}
            /\ ~Unorderable =>
                  \A t \in DOMAIN tasks :
                      Cardinality({k \in 1..Len(plan) : t \in plan[k]}) = 1

\* C24 witness: a run executes a plan of two batches built from two tasks of
\* which one depends on the other.
C24_Witness ==
    /\ runs > 0
    /\ Len(execution_plan) = 2
    /\ ~Unorderable
    /\ \E t \in DOMAIN tasks : Dependencies(t) # {} /\ t \in execution_plan[2]
    /\ \E p \in Callers : pc[p] = "batch" /\ batch = 2

\* the coroutine of t has been started in this run
Started(t) == tpc[t] # "idle"

\* t has ended this run with Success, or Failed after its last attempt
Settled(t) ==
    /\ tpc[t] = "done"
    /\ t \in settled
    /\ \/ task_results[t].status = "success"
       \/ /\ task_results[t].status = "failed"
          /\ execs[t] = tasks[t].retry_count + 1

\* C25: when the coroutine of a task has been started, every task of every
\* earlier batch of the plan has settled, whether the task depends on it or
\* not.
C25_BatchBarrier ==
    \A t \in DOMAIN tasks : \A u \in DOMAIN tasks :
        (Started(t) /\ BatchOf(u) > 0 /\ BatchOf(u) < BatchOf(t)) => Settled(u)

\* C25 witness: the task of the second batch is running; a task of the first
\* batch it does not depend on needed its retry and ended Failed.
C25_Witness ==
    \E t \in DOMAIN tasks : \E u \in DOMAIN tasks :
        /\ tpc[t] = "running"
        /\ BatchOf(t) = 2
        /\ BatchOf(u) = 1
        /\ u \notin DependsOn(t)
        /\ Settled(u)
        /\ task_results[u].status = "failed"
        /\ execs[u] = 2

\* C26: a task whose last attempt was ended by the timeout has ended Failed
\* with the timeout as its error, after retry_count + 1 calls and the
\* backoff delays 1, 2, 4, ... between them; and an attempt that ends without
\* success while retries remain is followed by the backoff sleep of its
\* attempt number, not by a terminal result.
C26_TimeoutCounted ==
    /\ [](\A t \in DOMAIN tasks :
            lastOutcome[t] = "timeout" =>
                /\ tpc[t] = "done"
                /\ t \in settled
                /\ task_results[t] = TaskResult("failed", "empty", "timeout")
                /\ execs[t] = tasks[t].retry_count + 1
                /\ Len(delays[t]) = tasks[t].retry_count
                /\ \A i \in 1..Len(delays[t]) : delays[t][i] = 2 ^ (i - 1))
    /\ [][\A t \in DOMAIN tasks :
            (tpc[t] = "running" /\ tpc'[t] \notin {"running", "done"})
            => /\ attempt[t] < tasks[t].retry_count
               /\ tpc'[t] = "sleeping"
               /\ delays'[t] = Append(delays[t], 2 ^ attempt[t])
               /\ t \notin settled'
               /\ lastOutcome'[t] = "none"]_vars

\* C26 witness: a task with retry_count = 2 was ended by the timeout on its
\* third call, after the delays 1 and 2, and is Failed with the timeout error.
C26_Witness ==
    \E t \in DOMAIN tasks :
        /\ tasks[t].retry_count = 2
        /\ lastOutcome[t] = "timeout"
        /\ execs[t] = 3
        /\ delays[t] = <<1, 2>>
        /\ task_results[t].error = "timeout"

\* C28: is_running is set only while a caller is inside its run; when every
\* caller has returned, however the last run ended, the flag is clear and
\* the guard of _trigger_pipeline lets the next trigger through.
C28_FlagClearedAfterRun ==
    /\ is_running => \E p \in Callers : InRun(p)
    /\ (\A p \in Callers : ~InRun(p)) => (~is_running /\ ~AlreadyRunning)

\* C28 witness: a run was aborted by a raising coroutine and left a Failed
\* result; its caller has returned and the next trigger has been accepted.
C28_Witness ==
    /\ runs = 1
    /\ accepted = 2
    /\ ~pipeline_success
    /\ \E t \in DOMAIN task_results : task_results[t].status = "failed"
    /\ \E p \in Callers : pc[p] = "triggered"
    /\ is_running

\* C29 (as claimed): a run whose notification says SUCCESS holds no task
\* with on_failure = "fail" that ended Failed in it.
C29_SuccessMeansNoFailedTask ==
    (LastRunEnded /\ notified # <<>> /\ notified[1].status = "SUCCESS") =>
        \A t \in DOMAIN tasks : ~(FailedInRun(t) /\ tasks[t].on_failure = "fail")

\* C30: in a run the function of a task is called at most retry_count + 1
\* times; a task whose call returned has ended with Success after one call
\* more than the failed attempts before it; and once a task has a terminal
\* result in a run, the result and the number of calls stay as they are
\* until the next run starts.
C30_AtMostOnceAfterSuccess ==
    /\ [](\A t \in DOMAIN tasks :
            /\ execs[t] <= tasks[t].retry_count + 1
            /\ lastOutcome[t] = "return" =>
                  /\ tpc[t] = "done"
                  /\ t \in settled
                  /\ task_results[t].status = "success"
                  /\ execs[t] = attempt[t] + 1
                  /\ execs[t] = Len(delays[t]) + 1)
    /\ [][\A t \in DOMAIN tasks :
            (t \in settled /\ runs' = runs)
            => /\ t \in settled'
               /\ task_results'[t] = task_results[t]
               /\ execs'[t] = execs[t]]_vars

\* C30 witness: a task with retry_count = 2 succeeded on its second call and
\* holds Success while the task of the next batch is running.
C30_Witness ==
    \E t \in DOMAIN tasks : \E u \in DOMAIN tasks :
        /\ tasks[t].retry_count = 2
        /\ lastOutcome[t] = "return"
        /\ execs[t] = 2
        /\ task_results[t].status = "success"
        /\ BatchOf(u) > BatchOf(t)
        /\ tpc[u] = "running"

(***************************************************************************)
(* Properties of the registry                                              *)
(***************************************************************************)
\* C2: at most one version of the model holds Production in every state, also
\* while promotions of different versions interleave.
C2_AtMostOneProduction == Cardinality(ProductionHolders) <= 1

\* C2 witness: both clients are inside promote(.., Production) calls for
\* different versions while a version holds Production.
C2_Witness ==
    /\ \A c \in Clients : rpc[c] \in {"acquire", "verify", "demote", "install"}
    /\ \A c \in Clients : rcall[c].target = "Production"
    /\ rcall["api"].version # rcall["workflow"].version
    /\ rcall["api"].version \in versions
    /\ ProductionHolders # {}

\* C13: a promote(m, v, Production) that finds v in Production returns
\* success at once and changes the stage of no version: v stays Production
\* and nothing is archived.
C13_PromoteIdempotent ==
    [][\A c \in Clients :
          (rpc[c] = "verify" /\ rpc'[c] # "verify"
              /\ rcall[c].version \in versions
              /\ rcall[c].target = "Production"
              /\ stage[rcall[c].version] = "Production")
          => /\ rresult'[c] = "success"
             /\ rpc'[c] = "idle"
             /\ stage' = stage
             /\ ProductionHolders' = {rcall[c].version}]_vars

\* C13 witness: a promote to Production returned success for a version that
\* was in Production already, next to an Archived version.
C13_Witness ==
    \E c \in Clients :
        /\ runchanged[c]
        /\ rpc[c] = "idle"
        /\ rresult[c] = "success"
        /\ stage[rcall[c].version] = "Production"
        /\ \E v \in versions : stage[v] = "Archived"

\* C14: a promote that returns failure leaves every version in the stage it
\* had when the call entered the critical section: the holder of Production
\* is not left demoted.
C14_FailedPromoteChangesNothing ==
    [][\A c \in Clients :
          (rpc[c] \in {"verify", "install"} /\ rresult'[c] = "failure"
              /\ rpc'[c] # rpc[c])
          => \A v \in DOMAIN rsaved : stage'[v] = rsaved[v]]_vars

\* C14 witness: a promote to Production of a registered version failed after
\* the holder of Production had been demoted, and the holder is in
\* Production.
C14_Witness ==
    \E c \in Clients :
        /\ rresult[c] = "failure"
        /\ rpc[c] = "idle"
        /\ rcall[c].target = "Production"
        /\ rcall[c].version \in versions
        /\ stage[rcall[c].version] # "Production"
        /\ ProductionHolders # {}

(***************************************************************************)
(* Properties of the monitor loops                                         *)
(***************************************************************************)
\* C11 (as claimed): while success_rate stays below 0.90 from one tick of
\* _monitor_performance to the next, the loop starts at most one run of the
\* pipeline for that degradation.
C11_OneRunPerDegradation == degradation_runs <= 1

(***************************************************************************)
(* Properties of the A/B testing framework                                 *)
(***************************************************************************)
TerminalStatuses == {"Stopped", "Completed"}

C15_CreateValidated ==
    /\ [](\A model_type \in ModelTypes : Cardinality(RunningFor(model_type)) <= 1)
    /\ [](\A e \in DOMAIN experiments :
              TotalTraffic(experiments[e].variants) <= 100
                  /\ Len(experiments[e].variants) >= 2)
    /\ [][\A e \in ExperimentIds :
              (e \notin DOMAIN experiments /\ e \in DOMAIN experiments')
                  => RunningFor(experiments'[e].model_type) = {}]_vars
    /\ [][(ab_reply' # ab_reply /\ ab_reply'.value = "ValidationError")
              => UNCHANGED <<experiments, ab_results, allocations, record_calls>>]_vars

\* C15 witness: a create_experiment was rejected while an experiment is
\* Running and nothing was stored under the rejected experiment_id.
C15_Witness ==
    /\ ab_reply.op = "create_experiment"
    /\ ab_reply.value = "ValidationError"
    /\ ab_reply.experiment \notin DOMAIN experiments
    /\ \E e \in DOMAIN experiments : experiments[e].status = "Running"

\* C16: for every experiment the sample sizes get_experiment_results reports
\* for its variants add up to the number of record_result calls made for it.
C16_ResultsCounted ==
    \A e \in DOMAIN experiments :
        SumOver([name \in VariantNames(experiments[e].variants) |->
                    get_experiment_results(e)[name].sample_size],
                VariantNames(experiments[e].variants)) = record_calls[e]

\* C16 witness: three results were recorded, two of them for the same variant.
C16_Witness ==
    \E e \in DOMAIN experiments :
        /\ record_calls[e] >= 3
        /\ \A name \in VariantNames(experiments[e].variants) : SampleSize(e, name) >= 1

\* a variant of e has fewer results than minimum_sample_size
BelowMinimum(e) ==
    \E name \in VariantNames(experiments[e].variants) :
        SampleSize(e, name) < experiments[e].minimum_sample_size

\* C17: in every state where a variant of an experiment is below
\* minimum_sample_size recommend_winner is "inconclusive", and so is the
\* recommendation in the response of the stop endpoint.
C17_InconclusiveBelowMinimum ==
    /\ \A e \in DOMAIN experiments :
          BelowMinimum(e) => recommend_winner(e) = "inconclusive"
    /\ (ab_reply.op = "stop_experiment" /\ ab_reply.value = "completed") =>
          ((\E name \in DOMAIN ab_reply.results : ~ab_reply.results[name].reached)
              => ab_reply.recommendation = "inconclusive")

\* C17 witness: the stop endpoint answered "inconclusive" for an experiment
\* in which one variant reached minimum_sample_size with a better
\* success_rate and the other variant did not reach it.
C17_Witness ==
    /\ ab_reply.op = "stop_experiment"
    /\ ab_reply.value = "completed"
    /\ ab_reply.recommendation = "inconclusive"
    /\ \E a, b \in DOMAIN ab_reply.results :
          /\ ab_reply.results[a].reached
          /\ ~ab_reply.results[b].reached
          /\ ab_reply.results[b].sample_size > 0
          /\ ab_reply.results[a].successes * ab_reply.results[b].sample_size
                > ab_reply.results[b].successes * ab_reply.results[a].sample_size

\* C18: an experiment that is Stopped or Completed keeps that status, a
\* get_variant for it is rejected and allocates nothing, and every result
\* recorded for it stays in what get_experiment_results reads.
C18_TerminalIsFinal ==
    [][\A e \in DOMAIN experiments :
          experiments[e].status \in TerminalStatuses =>
              /\ experiments'[e].status = experiments[e].status
              /\ allocations'[e] = allocations[e]
              /\ Len(ab_results'[e]) >= Len(ab_results[e])
              /\ SubSeq(ab_results'[e], 1, Len(ab_results[e])) = ab_results[e]
              /\ (ab_reply' # ab_reply /\ ab_reply'.op = "get_variant"
                    /\ ab_reply'.experiment = e) => ab_reply'.value = "rejected"]_vars

\* C18 witness: get_variant was rejected for a Stopped experiment that holds
\* results and had allocated an identifier while it was Running.
C18_Witness ==
    \E e \in DOMAIN experiments :
        /\ experiments[e].status = "Stopped"
        /\ ab_reply = Reply("get_variant", e, "rejected")
        /\ ab_results[e] # <<>>
        /\ \E u \in Identifiers : allocations[e][u].variants # {}

WritersIdle == \A w \in Writers : writer[w].pc = "idle"

\* the number of times v occurs in the sequence s
Occurrences(s, v) == Cardinality({i \in 1..Len(s) : s[i] = v})

\* C21 (as claimed): when the record_* calls of all threads have returned,
\* every counter equals the sum of the increments recorded into it, and a
\* histogram that was given no more than max_points values holds every one
\* of them.
C21_NoSampleLost ==
    WritersIdle =>
        /\ \A key \in CounterKeys : get_counter(key) = recorded.counted[key]
        /\ \A key \in HistogramKeys :
              Len(recorded.appended[key]) <= max_points =>
                  \A v \in Durations :
                      Occurrences(Points(key), v) = Occurrences(recorded.appended[key], v)

\* C27: the deque of every histogram key holds at most max_points points, and
\* an append to a full deque leaves it with its former points but the oldest,
\* followed by the new one.
C27_HistogramBounded ==
    /\ [](\A i \in 1..Len(deques) : Len(deques[i]) <= max_points)
    /\ [][\A w \in Writers :
              (writer[w].pc = "deque_found" /\ writer'[w].pc = "idle"
                  /\ Len(deques[writer[w].deque]) = max_points)
              => /\ deques'[writer[w].deque]
                      = Tail(deques[writer[w].deque]) \o <<writer[w].value>>
                 /\ Len(deques'[writer[w].deque]) = max_points]_vars

\* C27 witness: a key was given more than max_points values; its deque is
\* full and ends with the value recorded last, the oldest value is gone.
C27_Witness ==
    /\ WritersIdle
    /\ \E key \in HistogramKeys :
          /\ Len(recorded.appended[key]) = max_points + 1
          /\ Len(Points(key)) = max_points
          /\ Points(key) = Tail(recorded.appended[key])
          /\ recorded.appended[key][1] # recorded.appended[key][2]

(***************************************************************************)
(* Properties of the canonical pipeline                                    *)
(***************************************************************************)
\* t has ended with Success in the run in progress or ended last
SucceededInRun(t) ==
    t \in settled /\ t \in DOMAIN task_results /\ task_results[t].status = "success"

\* C22 (as claimed): when promote_to_production has ended in a run, it has
\* ended with Success, and its output says promoted exactly when the
\* run_ab_test output of the same run says candidate_better; what it
\* promotes is the version register_model_version registered in that run.
C22_PromotedWhenFavoured ==
    "promote_to_production" \in settled =>
        /\ SucceededInRun("promote_to_production")
        /\ task_results["promote_to_production"].output.promoted
              <=> (SucceededInRun("run_ab_test")
                      /\ task_results["run_ab_test"].output.candidate_better)
        /\ task_results["promote_to_production"].output.promoted =>
              task_results["promote_to_production"].output.production_version
                  = task_results["register_model_version"].output.registered_version

(***************************************************************************)
(* Properties of the trigger sources                                       *)
(***************************************************************************)
\* C23 (as claimed): a trigger of any source that arrives while no run is in
\* progress starts a run: when the scheduled job is called, or a monitor
\* loop finds its condition, with is_running unset, the step sets is_running
\* and counts an accepted trigger.
C23_IdleTriggerStartsRun ==
    [][((never_awaited' # never_awaited
            \/ \E p \in Callers : mpc[p] = "sleeping" /\ mpc'[p] = "awaiting")
        /\ ~is_running)
       => (is_running' /\ accepted' = accepted + 1)]_vars

(***************************************************************************)
(* Properties of the task functions of a batch                             *)
(***************************************************************************)
\* C31 (as claimed): at most one attempt of a task is executing at any time,
\* whether the function is a coroutine function or runs in a worker thread.
C31_OneAttemptExecuting ==
    \A t \in BatchIds : Cardinality(executing[t]) <= 1

\* the tasks of which some attempt is executing
ExecutingTasks == {t \in BatchIds : executing[t] # {}}

\* C32 (as claimed): the number of tasks executing at the same time never
\* exceeds max_concurrent_tasks.
C32_ConcurrencyLimited ==
    Cardinality(ExecutingTasks) <= max_concurrent_tasks

ReportsOf(call) == {i \in 1..Len(reports) : reports[i].call = call}

C34_ClassifiedBySelectedModel ==
    \A r \in Identifiers :
        classified_by[r] # NoClassifier => classified_by[r] = model[r]

\* no predict call is in flight
NoPredictInFlight == \A r \in Identifiers : ppc[r] \in {"idle", "returned", "raised"}

\* C35 (as claimed): whenever no predict call is in flight,
\* self.event_classifier is the classifier that was installed before the
\* calls started.
C35_SwapUndone ==
    NoPredictInFlight => event_classifier = InstalledClassifier

(***************************************************************************)
(* Properties of the Kafka handler                                         *)
(***************************************************************************)
\* the responses sent for the i-th message consumed
ResponsesTo(i) == {j \in 1..Len(sent) : sent[j].message = i}

C38_TotalsReported ==
    /\ _get_metrics_summary.requests.total = http_requests
    /\ _get_metrics_summary.ml_inferences.total = ml_inferences
    /\ get_prometheus_metrics[1][2] = http_requests
    /\ get_prometheus_metrics[2][2] = ml_inferences

(***************************************************************************)
(* Properties of the model cache                                           *)
(***************************************************************************)
\* C39 (as claimed): the cache holds at most max_size entries; cache and
\* access_times have the same keys; a get of an expired key returned None
\* and removed the key; a set on a key that was cached evicted no other key.
C39_CacheInvariants ==
    /\ Cardinality(DOMAIN cache) <= max_size
    /\ DOMAIN cache = DOMAIN access_times
    /\ (cache_call.op = "get" /\ cache_call.expired) =>
          (cache_call.result = "None" /\ cache_call.key \notin DOMAIN cache)
    /\ (cache_call.op = "set" /\ cache_call.key \in cache_call.held) =>
          cache_call.held \subseteq DOMAIN cache

====
